---------------------------- MODULE Spec2Model ----------------------------
(***************************************************************************)
(* A model of the gonedice expression pipeline (package gonedice):         *)
(*   New / Roll / replaceVars / tokenize / preProcessTokens / toRPN /      *)
(*   evalTokens / evalRPN / resolveMetaValues / getFromMetaTuple.          *)
(*                                                                         *)
(* Go strings are modelled as sequences of one-character strings, so that  *)
(* lexing, strconv.Atoi, strconv.Itoa and the tuple splitter are computed  *)
(* as the code computes them.  A token is such a sequence.                 *)
(***************************************************************************)
EXTENDS Integers, Sequences, FiniteSets, TLC

(***************************************************************************)
(* Characters and strings                                                  *)
(***************************************************************************)
Digits == <<"0", "1", "2", "3", "4", "5", "6", "7", "8", "9">>

LowerLetters ==
  <<"a", "b", "c", "d", "e", "f", "g", "h", "i", "j", "k", "l", "m",
    "n", "o", "p", "q", "r", "s", "t", "u", "v", "w", "x", "y", "z">>

UpperLetters ==
  <<"A", "B", "C", "D", "E", "F", "G", "H", "I", "J", "K", "L", "M",
    "N", "O", "P", "Q", "R", "S", "T", "U", "V", "W", "X", "Y", "Z">>

\* The byte order of the characters the model uses (sort.Strings compares bytes).
AsciiOrder ==
  <<" ", "\"", "$", "%", "&", "(", ")", "*", "+", ",", "-", "/">>
  \o Digits \o <<":", "<", "=", ">", "?">> \o UpperLetters
  \o <<"[", "\\", "]", "^", "_">> \o LowerLetters \o <<"{", "|", "}">>

Range(f) == {f[i] : i \in DOMAIN f}

IndexOf(seq, c) == CHOOSE i \in DOMAIN seq : seq[i] = c

isDigit(ch) == ch \in Range(Digits)

isLower(ch) == ch \in Range(LowerLetters)

isUpper(ch) == ch \in Range(UpperLetters)

isLetter(ch) == isLower(ch) \/ isUpper(ch)

ToLowerCh(c) == IF isUpper(c) THEN LowerLetters[IndexOf(UpperLetters, c)] ELSE c

ToUpperCh(c) == IF isLower(c) THEN UpperLetters[IndexOf(LowerLetters, c)] ELSE c

ToLower(s) == [i \in DOMAIN s |-> ToLowerCh(s[i])]

ToUpper(s) == [i \in DOMAIN s |-> ToUpperCh(s[i])]

Blank == {" "}

RECURSIVE TrimLeft(_, _)
TrimLeft(s, cut) ==
  IF s # <<>> /\ Head(s) \in cut THEN TrimLeft(Tail(s), cut) ELSE s

RECURSIVE TrimRight(_, _)
TrimRight(s, cut) ==
  IF s # <<>> /\ s[Len(s)] \in cut THEN TrimRight(SubSeq(s, 1, Len(s) - 1), cut) ELSE s

Trim(s, cut) == TrimRight(TrimLeft(s, cut), cut)

TrimSpace(s) == Trim(s, Blank)

HasPrefix(s, p) == Len(s) >= Len(p) /\ SubSeq(s, 1, Len(p)) = p

\* Go's s[a:b] with 0-based a (inclusive) and b (exclusive).
Slice(s, a, b) == SubSeq(s, a + 1, b)

RECURSIVE Join(_, _)
Join(parts, sep) ==
  IF parts = <<>> THEN <<>>
  ELSE IF Len(parts) = 1 THEN parts[1]
  ELSE parts[1] \o sep \o Join(Tail(parts), sep)

RECURSIVE DigitsValue(_, _)
DigitsValue(s, acc) ==
  IF s = <<>> THEN acc
  ELSE DigitsValue(Tail(s), acc * 10 + (IndexOf(Digits, Head(s)) - 1))

\* strconv.Atoi: an optional sign, then one or more decimal digits.
Atoi(s) ==
  LET body == IF s # <<>> /\ Head(s) \in {"+", "-"} THEN Tail(s) ELSE s
      neg == s # <<>> /\ Head(s) = "-"
  IN  IF body = <<>> \/ \E i \in DOMAIN body : ~isDigit(body[i])
        THEN [ok |-> FALSE, v |-> 0]
        ELSE [ok |-> TRUE,
              v |-> IF neg THEN 0 - DigitsValue(body, 0) ELSE DigitsValue(body, 0)]

RECURSIVE NatDigits(_)
NatDigits(n) ==
  IF n < 10 THEN <<Digits[n + 1]>>
  ELSE Append(NatDigits(n \div 10), Digits[(n % 10) + 1])

\* strconv.Itoa
Itoa(n) == IF n < 0 THEN <<"-">> \o NatDigits(0 - n) ELSE NatDigits(n)

RECURSIVE SumSeq(_)
SumSeq(s) == IF s = <<>> THEN 0 ELSE Head(s) + SumSeq(Tail(s))


(***************************************************************************)
(* Variable substitution: RD.replaceVars                                   *)
(* A ValueTable is [nil |-> BOOLEAN, m |-> function from keys to Int];     *)
(* nil is Go's nil map.                                                    *)
(***************************************************************************)
NilTable == [nil |-> TRUE, m |-> <<>>]

RECURSIVE FirstClose(_, _)
FirstClose(s, j) ==
  IF j > Len(s) THEN 0 ELSE IF s[j] = "}" THEN j ELSE FirstClose(s, j + 1)

\* varRe = \{([^}]+)\} applied by ReplaceAllStringFunc, scanning from index i.
RECURSIVE replaceFrom(_, _, _)
replaceFrom(m, s, i) ==
  IF i > Len(s) THEN <<>>
  ELSE LET j == IF s[i] = "{" THEN FirstClose(s, i + 1) ELSE 0
       IN  IF j > i + 1
             THEN LET mt == SubSeq(s, i, j)
                      up == ToUpper(Trim(mt, {"{", "}"}))
                  IN  (IF up \in DOMAIN m THEN Itoa(m[up]) ELSE mt)
                        \o replaceFrom(m, s, j + 1)
             ELSE <<s[i]>> \o replaceFrom(m, s, i + 1)

replaceVars(vt, s) == IF vt.nil THEN s ELSE replaceFrom(vt.m, s, 1)

(***************************************************************************)
(* Lexer: tokenize                                                         *)
(***************************************************************************)
Punct == {"+", "-", "*", "/", "^", "(", ")", ",", "?", ":", "=", "<", ">", "&", "|", "%"}

\* The string-literal scan of tokenize: [j, sb] where j is the index of the
\* closing quote, or Len(s) + 1 when the literal is unterminated.
RECURSIVE StrScan(_, _, _)
StrScan(s, j, sb) ==
  IF j > Len(s) THEN [j |-> j, sb |-> sb]
  ELSE IF s[j] = "\\" /\ j + 1 <= Len(s) THEN StrScan(s, j + 2, Append(sb, s[j + 1]))
  ELSE IF s[j] = "\"" THEN [j |-> j, sb |-> sb]
  ELSE StrScan(s, j + 1, Append(sb, s[j]))

\* The index just past a run of characters satisfying a class, starting at j.
RECURSIVE RunEnd(_, _, _)
RunEnd(s, j, class) ==
  IF j <= Len(s) /\ s[j] \in class THEN RunEnd(s, j + 1, class) ELSE j

\* The bracketed-tuple scan of tokenize: the index of the matching "]", or an
\* index past the end.
RECURSIVE TupleScan(_, _, _)
TupleScan(s, j, depth) ==
  IF j > Len(s) THEN j
  ELSE IF s[j] = "[" THEN TupleScan(s, j + 1, depth + 1)
  ELSE IF s[j] = "]"
    THEN IF depth - 1 = 0 THEN j ELSE TupleScan(s, j + 1, depth - 1)
  ELSE IF s[j] = "\""
    THEN TupleScan(s, StrScan(s, j + 1, <<>>).j + 1, depth)
  ELSE TupleScan(s, j + 1, depth)

AlnumChars == Range(Digits) \cup Range(LowerLetters) \cup Range(UpperLetters)

LetterChars == Range(LowerLetters) \cup Range(UpperLetters)

LexError == [ok |-> FALSE, toks |-> <<>>]

RECURSIVE tokenizeFrom(_, _, _)
tokenizeFrom(s, i, toks) ==
  IF i > Len(s) THEN [ok |-> TRUE, toks |-> toks]
  ELSE LET c == s[i] IN
    IF c \in Blank THEN tokenizeFrom(s, i + 1, toks)
    ELSE IF c = "\""
      THEN LET e == StrScan(s, i + 1, <<>>)
           IN  IF e.j > Len(s) THEN LexError
               ELSE tokenizeFrom(s, e.j + 1, Append(toks, <<"\"">> \o e.sb \o <<"\"">>))
    ELSE IF isDigit(c)
      THEN LET j == RunEnd(s, i + 1, Range(Digits))
           IN  tokenizeFrom(s, j, Append(toks, SubSeq(s, i, j - 1)))
    ELSE IF c = "["
      THEN LET j == TupleScan(s, i, 0)
           IN  IF j > Len(s) THEN LexError
               ELSE tokenizeFrom(s, j + 1, Append(toks, SubSeq(s, i, j)))
    ELSE IF c \in Punct THEN tokenizeFrom(s, i + 1, Append(toks, <<c>>))
    ELSE IF c = "$"
      THEN LET j == RunEnd(s, i + 1, AlnumChars)
           IN  tokenizeFrom(s, j, Append(toks, SubSeq(s, i, j - 1)))
    ELSE IF isLetter(c)
      THEN LET j == RunEnd(s, i + 1, LetterChars)
           IN  tokenizeFrom(s, j, Append(toks, SubSeq(s, i, j - 1)))
    ELSE LexError

tokenize(s) == tokenizeFrom(TrimSpace(s), 1, <<>>)

(***************************************************************************)
(* Operator table: prec, isLeftAssoc, isOperator                           *)
(***************************************************************************)
\* prec with "=" as the loosest operator instead of the tightest.
precAssignLoosest(op) ==
  CASE op \in {<<"|">>, <<"&">>} -> 2
    [] op \in {<<"<">>, <<">">>} -> 1
    [] op \in {<<"+">>, <<"-">>} -> 3
    [] op \in {<<"*">>, <<"/">>} -> 4
    [] op = <<"^">> -> 5
    [] op \in {<<"d">>, <<"d", "f">>, <<"a">>, <<"c">>, <<"a", "_", "m">>,
               <<"c", "_", "m">>, <<"b">>, <<"p">>, <<"f">>} -> 7
    [] op \in {<<"k">>, <<"q">>, <<"k", "h">>, <<"k", "l">>, <<"d", "h">>,
               <<"d", "l">>, <<"m", "i", "n">>, <<"m", "a", "x">>,
               <<"s", "p">>, <<"t", "p">>, <<"l", "p">>} -> 6
    [] op = <<"?">> -> 8
    [] OTHER -> 0

prec(op) ==
  CASE op \in {<<"|">>, <<"&">>} -> 2
    [] op \in {<<"<">>, <<">">>} -> 1
    [] op \in {<<"+">>, <<"-">>} -> 3
    [] op \in {<<"*">>, <<"/">>} -> 4
    [] op = <<"^">> -> 5
    [] op \in {<<"d">>, <<"d", "f">>, <<"a">>, <<"c">>, <<"a", "_", "m">>,
               <<"c", "_", "m">>, <<"b">>, <<"p">>, <<"f">>} -> 7
    [] op \in {<<"k">>, <<"q">>, <<"k", "h">>, <<"k", "l">>, <<"d", "h">>,
               <<"d", "l">>, <<"m", "i", "n">>, <<"m", "a", "x">>,
               <<"s", "p">>, <<"t", "p">>, <<"l", "p">>} -> 6
    [] op = <<"?">> -> 8
    [] op = <<"=">> -> 9
    [] OTHER -> 0

OperatorTokens ==
  {<<"|">>, <<"&">>, <<"<">>, <<">">>, <<"+">>, <<"-">>, <<"*">>, <<"/">>, <<"^">>,
   <<"d">>, <<"d", "f">>, <<"k">>, <<"q">>, <<"a">>, <<"c">>, <<"a", "_", "m">>,
   <<"c", "_", "m">>, <<"b">>, <<"p">>, <<"f">>, <<"k", "h">>, <<"k", "l">>,
   <<"d", "h">>, <<"d", "l">>, <<"m", "i", "n">>, <<"m", "a", "x">>, <<"s", "p">>,
   <<"t", "p">>, <<"l", "p">>, <<"?">>, <<"=">>}

isLeftAssoc(op) == ~(op = <<"^">> \/ op = <<"=">>)

isOperator(tok) == tok \in OperatorTokens

(***************************************************************************)
(* Token preprocessor: preProcessTokens                                    *)
(***************************************************************************)
\* Phase 1: default left and right operands of d, b, p, f, df, a, c.
RECURSIVE preDefaults(_, _, _)
preDefaults(toks, i, out) ==
  IF i > Len(toks) THEN out
  ELSE LET tok == toks[i]
           low == ToLower(tok)
       IN  IF low \in {<<"d">>, <<"b">>, <<"p">>, <<"f">>, <<"d", "f">>, <<"a">>, <<"c">>}
             THEN LET needLeft ==
                        IF Len(out) = 0 THEN TRUE
                        ELSE LET last == out[Len(out)]
                             IN  isOperator(ToLower(last))
                                   \/ last \in {<<"(">>, <<"?">>, <<":">>}
                      withLeft ==
                        IF ~needLeft THEN out
                        ELSE IF low \in {<<"f">>, <<"d", "f">>}
                          THEN Append(out, <<"4">>)
                          ELSE Append(out, <<"1">>)
                      needRight ==
                        IF i + 1 > Len(toks) THEN TRUE
                        ELSE LET next == toks[i + 1]
                             IN  isOperator(ToLower(next))
                                   \/ next \in {<<")">>, <<":">>}
                      withTok == Append(withLeft, tok)
                      withRight ==
                        IF ~needRight THEN withTok
                        ELSE IF low \in {<<"b">>, <<"p">>} THEN Append(withTok, <<"1">>)
                        ELSE IF low \in {<<"f">>, <<"d", "f">>} THEN Append(withTok, <<"3">>)
                        ELSE withTok
                  IN  preDefaults(toks, i + 1, withRight)
             ELSE preDefaults(toks, i + 1, Append(out, tok))

\* Phase 2: <left> a <threshold> m <faces>  ->  <left> <threshold> <faces> a_m
RECURSIVE preChainFaces(_, _, _)
preChainFaces(out, i, res) ==
  IF i > Len(out) THEN res
  ELSE IF /\ i + 4 <= Len(out)
          /\ ToLower(out[i + 1]) \in {<<"a">>, <<"c">>}
          /\ ToLower(out[i + 3]) = <<"m">>
          /\ Atoi(out[i + 2]).ok
          /\ Atoi(out[i + 4]).ok
    THEN preChainFaces(out, i + 5,
           res \o <<out[i], out[i + 2], out[i + 4], ToLower(out[i + 1]) \o <<"_", "m">>>>)
    ELSE preChainFaces(out, i + 1, Append(res, out[i]))

\* Phase 3: d% and the default faces of a d without right operand.
RECURSIVE preDiceFaces(_, _, _, _)
preDiceFaces(res, j, final, defaultD) ==
  IF j > Len(res) THEN final
  ELSE IF ToLower(res[j]) = <<"d">> /\ j + 1 <= Len(res) /\ res[j + 1] = <<"%">>
    THEN preDiceFaces(res, j + 2,
           (IF j = 1 THEN Append(final, <<"1">>) ELSE final) \o <<<<"d">>, Itoa(100)>>,
           defaultD)
  ELSE IF /\ ToLower(res[j]) = <<"d">>
          /\ \/ j + 1 > Len(res)
             \/ isOperator(ToLower(res[j + 1]))
             \/ res[j + 1] \in {<<")">>, <<":">>}
    THEN preDiceFaces(res, j + 1,
           (IF j = 1 THEN Append(final, <<"1">>) ELSE final) \o <<<<"d">>, Itoa(defaultD)>>,
           defaultD)
  ELSE preDiceFaces(res, j + 1, Append(final, res[j]), defaultD)

\* The preprocessor without its phase 1: no implied operand is supplied.
preProcessTokensLiteral(toks, defaultD) ==
  preDiceFaces(preChainFaces(toks, 1, <<>>), 1, <<>>, defaultD)

preProcessTokens(toks, defaultD) ==
  preDiceFaces(preChainFaces(preDefaults(toks, 1, <<>>), 1, <<>>), 1, <<>>, defaultD)

(***************************************************************************)
(* Postfix converter: toRPN (shunting-yard)                                *)
(***************************************************************************)
\* The pop loop run when operator op arrives: [out, stack].
RECURSIVE popHigher(_, _, _)
popHigher(op, out, stack) ==
  IF stack = <<>> THEN [out |-> out, stack |-> stack]
  ELSE LET top == stack[Len(stack)]
       IN  IF /\ isOperator(top)
              /\ \/ isLeftAssoc(op) /\ prec(op) <= prec(top)
                 \/ ~isLeftAssoc(op) /\ prec(op) < prec(top)
             THEN popHigher(op, Append(out, top), SubSeq(stack, 1, Len(stack) - 1))
             ELSE [out |-> out, stack |-> stack]

\* The pop loop run at ":" (until -> "?") and at ")" (until -> "("):
\* [found, out, stack], the stack with the marker removed.
RECURSIVE popUntil(_, _, _)
popUntil(until, out, stack) ==
  IF stack = <<>> THEN [found |-> FALSE, out |-> out, stack |-> stack]
  ELSE LET top == stack[Len(stack)]
           rest == SubSeq(stack, 1, Len(stack) - 1)
       IN  IF top = until THEN [found |-> TRUE, out |-> out, stack |-> rest]
           ELSE popUntil(until, Append(out, top), rest)

\* The final drain of the operator stack.
RECURSIVE drainStack(_, _)
drainStack(out, stack) ==
  IF stack = <<>> THEN [ok |-> TRUE, out |-> out]
  ELSE LET top == stack[Len(stack)]
       IN  IF top \in {<<"(">>, <<")">>} THEN [ok |-> FALSE, out |-> <<>>]
           ELSE drainStack(Append(out, top), SubSeq(stack, 1, Len(stack) - 1))

isOperandToken(tok) ==
  \/ Atoi(tok).ok
  \/ HasPrefix(tok, <<"$">>)
  \/ Len(tok) > 0 /\ tok[1] = "["
  \/ ~isOperator(ToLower(tok)) /\ Len(tok) > 0 /\ isLetter(tok[1])
  \/ Len(tok) >= 2 /\ tok[1] = "\"" /\ tok[Len(tok)] = "\""

RECURSIVE toRPNFrom(_, _, _, _)
toRPNFrom(tokens, i, out, stack) ==
  IF i > Len(tokens) THEN drainStack(out, stack)
  ELSE LET tok == tokens[i] IN
    IF isOperandToken(tok) THEN toRPNFrom(tokens, i + 1, Append(out, tok), stack)
    ELSE IF isOperator(ToLower(tok))
      THEN LET op == IF ToLower(tok) = <<"d", "f">> THEN <<"f">> ELSE ToLower(tok)
               p == popHigher(op, out, stack)
           IN  toRPNFrom(tokens, i + 1, p.out, Append(p.stack, op))
    ELSE IF tok = <<"?">> THEN toRPNFrom(tokens, i + 1, out, Append(stack, <<"?">>))
    ELSE IF tok = <<":">>
      THEN LET p == popUntil(<<"?">>, out, stack)
           IN  IF ~p.found THEN [ok |-> FALSE, out |-> <<>>]
               ELSE toRPNFrom(tokens, i + 1, p.out, Append(p.stack, <<":">>))
    ELSE IF tok = <<"(">> THEN toRPNFrom(tokens, i + 1, out, Append(stack, tok))
    ELSE IF tok = <<")">>
      THEN LET p == popUntil(<<"(">>, out, stack)
           IN  IF ~p.found THEN [ok |-> FALSE, out |-> <<>>]
               ELSE toRPNFrom(tokens, i + 1, p.out, p.stack)
    ELSE [ok |-> FALSE, out |-> <<>>]

toRPN(tokens) == toRPNFrom(tokens, 1, <<>>, <<>>)

(***************************************************************************)
(* Runtime values and the RD object                                        *)
(*                                                                         *)
(* Value mirrors the Go struct; MetaNil tells a nil Meta slice from an     *)
(* empty one.  An RD is a record                                           *)
(*   [Expr, origin, ValueTable, rng, res, temp, DefaultFaces, depth, log]  *)
(* where rng = [seed, pos] is the shared *rand.Rand (a stream and the      *)
(* number of draws made), temp is a function from indices to Int, and      *)
(* depth and log are history fields: the nesting depth of the RD (0 for    *)
(* the caller's, +1 per tuple element) and the events of the evaluation.   *)
(***************************************************************************)
\* The error kinds, named by the code that starts their message; the
\* description that follows the code in the Go constant is left out.
ErrNone == ""
ErrUnknownGenerate == "UNKNOWN_GENERATE_FATAL"
ErrInputRawInvalid == "INPUT_RAW_INVALID"
ErrNodeStackEmpty == "NODE_STACK_EMPTY"
ErrNodeLeftValInvalid == "NODE_LEFT_VAL_INVALID"
ErrNodeRightValInvalid == "NODE_RIGHT_VAL_INVALID"

ZeroValue ==
  [V |-> 0, Meta |-> <<>>, MetaNil |-> TRUE, MetaEnable |-> FALSE,
   TempIndex |-> 0, IsTemp |-> FALSE, MetaStr |-> <<>>]

\* Value{V: v}
Scalar(v) == [ZeroValue EXCEPT !.V = v]

\* Value{V: v, Meta: meta, MetaEnable: enable} with a non-nil slice
ListValue(v, meta, enable) ==
  [ZeroValue EXCEPT !.V = v, !.Meta = meta, !.MetaNil = FALSE, !.MetaEnable = enable]

\* Value{V: 0, Meta: nil, MetaEnable: true, MetaStr: strs}
StrValue(strs) == [ZeroValue EXCEPT !.MetaEnable = TRUE, !.MetaStr = strs]

ZeroResult ==
  [Value |-> 0, Min |-> 0, Max |-> 0, Detail |-> <<>>,
   MetaTuple |-> [ints |-> <<>>, strs |-> <<>>], Error |-> ErrNone]

\* One event of the evaluation history, recorded at nesting depth d
\* (0 for the RD the caller rolls, k for a tuple element k levels below):
\*   "draw"   a = n of Intn(n), b = the number drawn
\*   "read"   a = temp index, b = the value read, c = 1 when the reading
\*            RD's own temp store held the index
\*   "assign" a = temp index, b = the value written
\*   "fold"   a, b = the original positions of the group's parentheses,
\*            c = 1 when the folding loop evaluates the group in place
\*   "folded" a, b as for "fold", c = the group's value
\*   "branch" a = 1 for the true branch, b, c = positions of "?" and ":"
Ev(e, d, a, b, c) == [e |-> e, d |-> d, a |-> a, b |-> b, c |-> c]

Logged(r, e, a, b, c) == [r EXCEPT !.log = Append(@, Ev(e, r.depth, a, b, c))]

\* rng.Intn(n): the next element of the stream, reduced to [0, n).
IntnValue(rng, n) == rng.seed[(rng.pos % Len(rng.seed)) + 1] % n

\* The RD after one rng.Intn(n) call.
Drawn(r, n) ==
  Logged([r EXCEPT !.rng.pos = @ + 1], "draw", n, IntnValue(r.rng, n), 0)

\* times successive draws of Intn(n) + off from r: [rolls, r].
RECURSIVE DrawMany(_, _, _, _, _)
DrawMany(r, times, n, off, rolls) ==
  IF times <= 0 THEN [rolls |-> rolls, r |-> r]
  ELSE DrawMany(Drawn(r, n), times - 1, n, off, Append(rolls, IntnValue(r.rng, n) + off))

\* An evaluation outcome: (Value, ErrorType) and the RD as the call left it.
Outcome(val, err, r) == [val |-> val, err |-> err, r |-> r]

Fail(err, r) == Outcome(ZeroValue, err, r)

(***************************************************************************)
(* Integer helpers of the evaluator                                        *)
(***************************************************************************)
Abs(n) == IF n < 0 THEN 0 - n ELSE n

\* Go's integer division truncates toward zero.
GoDiv(a, b) ==
  IF (a < 0) = (b < 0) THEN Abs(a) \div Abs(b) ELSE 0 - (Abs(a) \div Abs(b))

RECURSIVE Pow(_, _)
Pow(a, n) == IF n <= 0 THEN 1 ELSE a * Pow(a, n - 1)

\* Bitwise operators on two's complement integers of BitWidth bits.
BitWidth == 16

ToBits(n) == IF n < 0 THEN n + Pow(2, BitWidth) ELSE n

FromBits(n) == IF n >= Pow(2, BitWidth - 1) THEN n - Pow(2, BitWidth) ELSE n

RECURSIVE BitsAnd(_, _)
BitsAnd(a, b) ==
  IF a = 0 \/ b = 0 THEN 0
  ELSE (IF a % 2 = 1 /\ b % 2 = 1 THEN 1 ELSE 0) + 2 * BitsAnd(a \div 2, b \div 2)

RECURSIVE BitsOr(_, _)
BitsOr(a, b) ==
  IF a = 0 THEN b ELSE IF b = 0 THEN a
  ELSE (IF a % 2 = 1 \/ b % 2 = 1 THEN 1 ELSE 0) + 2 * BitsOr(a \div 2, b \div 2)

BitAnd(a, b) == FromBits(BitsAnd(ToBits(a), ToBits(b)))

BitOr(a, b) == FromBits(BitsOr(ToBits(a), ToBits(b)))

\* sort.Ints
RECURSIVE InsertAsc(_, _)
InsertAsc(sorted, x) ==
  IF sorted = <<>> THEN <<x>>
  ELSE IF x < Head(sorted) THEN <<x>> \o sorted
  ELSE <<Head(sorted)>> \o InsertAsc(Tail(sorted), x)

RECURSIVE SortAsc(_)
SortAsc(s) == IF s = <<>> THEN <<>> ELSE InsertAsc(SortAsc(Tail(s)), Head(s))

Reverse(s) == [i \in DOMAIN s |-> s[Len(s) + 1 - i]]

\* sort.Slice with arr[i] > arr[j]
SortDesc(s) == Reverse(SortAsc(s))

\* The selection taken from the list in the order given, without sorting it.
selectFromMetaUnsorted(src, n, mode) ==
  LET sel == IF mode \in {<<"k", "h">>, <<"k", "l">>}
               THEN SubSeq(src, 1, IF n > Len(src) THEN Len(src) ELSE n)
               ELSE IF n >= Len(src) THEN <<>> ELSE SubSeq(src, n + 1, Len(src))
  IN  [sel |-> sel, sum |-> SumSeq(sel)]

\* selectFromMeta: [sel, sum]
selectFromMeta(src, n, mode) ==
  IF Len(src) = 0 THEN [sel |-> <<>>, sum |-> 0]
  ELSE LET arr == IF mode \in {<<"k", "h">>, <<"d", "h">>} THEN SortDesc(src) ELSE SortAsc(src)
           sel == IF mode \in {<<"k", "h">>, <<"k", "l">>}
                    THEN SubSeq(arr, 1, IF n > Len(arr) THEN Len(arr) ELSE n)
                    ELSE IF n >= Len(arr) THEN <<>> ELSE SubSeq(arr, n + 1, Len(arr))
       IN  IF mode \in {<<"k", "h">>, <<"k", "l">>, <<"d", "h">>, <<"d", "l">>}
             THEN [sel |-> sel, sum |-> SumSeq(sel)]
             ELSE [sel |-> <<>>, sum |-> 0]

(***************************************************************************)
(* New, and the meta-tuple resolver: getFromMetaTuple, resolveMetaValues   *)
(***************************************************************************)
DefaultFaces == 100

\* New(expr, valueTable).  The generator New seeds from the clock is chosen
\* by the caller of New in the model (see NewRD, and getFromMetaTuple, which
\* replaces it by the parent's generator).
New(expr, valueTable) ==
  [Expr |-> expr, origin |-> ToLower(expr), ValueTable |-> valueTable,
   rng |-> [seed |-> <<0>>, pos |-> 0], res |-> ZeroResult, temp |-> <<>>,
   DefaultFaces |-> DefaultFaces, depth |-> 0, log |-> <<>>]

RECURSIVE Roll(_)

\* A data element of getFromMetaTuple: an int or a string.
IntEl(v) == [isInt |-> TRUE, i |-> v, s |-> <<>>]

StrEl(str) == [isInt |-> FALSE, i |-> 0, s |-> str]

\* The ValueTable handed to the sub-RD of a string element.
subTable(r, flagUpdate) ==
  IF flagUpdate THEN r.ValueTable
  ELSE IF ~r.ValueTable.nil THEN [nil |-> FALSE, m |-> r.ValueTable.m]
  ELSE NilTable

\* The merge without the test that the sub-RD holds a table: a nil table of
\* the parent becomes a map whenever an element was rolled.
tableAfterSubAlloc(r, sub, flagUpdate) ==
  IF ~flagUpdate THEN r.ValueTable
  ELSE IF ~r.ValueTable.nil THEN sub.ValueTable
  ELSE [nil |-> FALSE, m |-> IF sub.ValueTable.nil THEN <<>> ELSE sub.ValueTable.m]

\* The parent's ValueTable after sub.Roll().  With flagUpdate and a non-nil
\* table the sub-RD wrote to the parent's own map; with a nil table the
\* sub-RD's map is merged into a new one only when the element succeeded.
tableAfterSub(r, sub, flagUpdate) ==
  IF ~flagUpdate THEN r.ValueTable
  ELSE IF ~r.ValueTable.nil THEN sub.ValueTable
  ELSE IF sub.res.Error = ErrNone /\ ~sub.ValueTable.nil
    THEN [nil |-> FALSE, m |-> sub.ValueTable.m]
  ELSE r.ValueTable

\* The parent's res after a successful element, under flagLast.
resAfterSub(r, sub, flagLast) ==
  IF flagLast
    THEN [r.res EXCEPT !.Value = sub.res.Value, !.Min = sub.res.Min, !.Max = sub.res.Max,
                       !.Detail = sub.res.Detail, !.Error = sub.res.Error]
    ELSE r.res

\* getFromMetaTuple from element i on: [res, r]
RECURSIVE getFromMetaTupleFrom(_, _, _, _, _, _)
getFromMetaTupleFrom(r, data, i, flagLast, flagUpdate, res) ==
  IF i > Len(data) THEN [res |-> res, r |-> r]
  ELSE IF data[i].isInt
    THEN getFromMetaTupleFrom(r, data, i + 1, flagLast, flagUpdate, Append(res, data[i].i))
  ELSE LET sub0 == [New(data[i].s, subTable(r, flagUpdate))
                      EXCEPT !.rng = r.rng, !.depth = r.depth + 1, !.log = r.log]
           back(sub) == [r EXCEPT !.rng = sub.rng, !.log = sub.log,
                                  !.ValueTable = tableAfterSub(r, sub, flagUpdate)]
           afterRoll(sub) ==
             IF sub.res.Error = ErrNone
               THEN getFromMetaTupleFrom(
                      [back(sub) EXCEPT !.res = resAfterSub(r, sub, flagLast)],
                      data, i + 1, flagLast, flagUpdate, Append(res, sub.res.Value))
               ELSE [res |-> <<>>, r |-> back(sub)]
       IN  afterRoll(Roll(sub0))

\* getFromMetaTuple copying the last element's result into the caller whatever
\* flagLast says.
getFromMetaTupleLast(r, data, flagLast, flagUpdate) ==
  getFromMetaTupleFrom(r, data, 1, TRUE, flagUpdate, <<>>)

getFromMetaTuple(r, data, flagLast, flagUpdate) ==
  getFromMetaTupleFrom(r, data, 1, flagLast, flagUpdate, <<>>)

\* resolveMetaValues: [vals, ok, r]
resolveMetaValues(r, v) ==
  IF ~v.MetaEnable THEN [vals |-> <<v.V>>, ok |-> TRUE, r |-> r]
  ELSE IF ~v.MetaNil THEN [vals |-> v.Meta, ok |-> TRUE, r |-> r]
  ELSE IF Len(v.MetaStr) > 0
    THEN LET data == [i \in DOMAIN v.MetaStr |-> StrEl(v.MetaStr[i])]
             resolved(got) ==
               IF Len(got.res) = Len(data)
                 THEN [vals |-> got.res, ok |-> TRUE, r |-> got.r]
                 ELSE [vals |-> <<>>, ok |-> FALSE, r |-> got.r]
         IN  resolved(getFromMetaTuple(r, data, FALSE, TRUE))
  ELSE [vals |-> <<>>, ok |-> FALSE, r |-> r]

(***************************************************************************)
(* evalRPN: operands                                                       *)
(***************************************************************************)
\* The element splitter of a tuple literal token (the text between the brackets).
RECURSIVE splitElems(_, _, _, _, _, _)
splitElems(inner, i, sb, depth, inStr, elems) ==
  IF i > Len(inner)
    THEN IF Len(sb) > 0 THEN Append(elems, TrimSpace(sb)) ELSE elems
  ELSE LET ch == inner[i] IN
    IF ch = "\"" THEN splitElems(inner, i + 1, Append(sb, ch), depth, ~inStr, elems)
    ELSE IF inStr THEN splitElems(inner, i + 1, Append(sb, ch), depth, inStr, elems)
    ELSE LET d2 == IF ch \in {"(", "["} THEN depth + 1
                   ELSE IF ch \in {")", "]"} THEN depth - 1
                   ELSE depth
         IN  IF ch = "," /\ d2 = 0
               THEN splitElems(inner, i + 1, <<>>, d2, inStr, Append(elems, TrimSpace(sb)))
               ELSE splitElems(inner, i + 1, Append(sb, ch), d2, inStr, elems)

\* The elements of a sequence that satisfy Keep, in order.
RECURSIVE SelectElems(_, _, _)
SelectElems(elems, wantInt, acc) ==
  IF elems = <<>> THEN acc
  ELSE LET el == Head(elems)
       IN  SelectElems(Tail(elems), wantInt,
             IF el # <<>> /\ Atoi(el).ok = wantInt THEN Append(acc, el) ELSE acc)

\* The Value pushed for a tuple literal token [a,b,c].
tupleLiteral(tok) ==
  LET elems == splitElems(SubSeq(tok, 2, Len(tok) - 1), 1, <<>>, 0, FALSE, <<>>)
      intEls == SelectElems(elems, TRUE, <<>>)
      metaInts == [i \in DOMAIN intEls |-> Atoi(intEls[i]).v]
      metaStrs == SelectElems(elems, FALSE, <<>>)
  IN  IF Len(metaStrs) > 0 /\ Len(metaInts) > 0 THEN StrValue(elems)
      ELSE IF Len(metaStrs) > 0 THEN StrValue(metaStrs)
      ELSE ListValue(0, metaInts, TRUE)

isTupleToken(tok) == Len(tok) >= 2 /\ tok[1] = "[" /\ tok[Len(tok)] = "]"

isStringToken(tok) == Len(tok) >= 2 /\ tok[1] = "\"" /\ tok[Len(tok)] = "\""

\* The index a temp token $t, $tN names.
tempIndex(tok) ==
  IF Len(tok) > 2 /\ Atoi(SubSeq(tok, 3, Len(tok))).ok
    THEN Atoi(SubSeq(tok, 3, Len(tok))).v
    ELSE 1

\* The ValueTable key of temp index idx: strings.ToUpper(fmt.Sprintf("t%d", idx))
tempKey(idx) == ToUpper(<<"t">> \o Itoa(idx))

\* The read without the fallback to the variable table.
tempReadOwnOnly(r, idx) == IF idx \in DOMAIN r.temp THEN r.temp[idx] ELSE 0

\* The value a temp token reads: the temp store first, then ValueTable["T<idx>"],
\* then ValueTable["t<idx>"], else 0.
tempRead(r, idx) ==
  IF idx \in DOMAIN r.temp THEN r.temp[idx]
  ELSE IF ~r.ValueTable.nil /\ tempKey(idx) \in DOMAIN r.ValueTable.m
    THEN r.ValueTable.m[tempKey(idx)]
  ELSE IF ~r.ValueTable.nil /\ (<<"t">> \o Itoa(idx)) \in DOMAIN r.ValueTable.m
    THEN r.ValueTable.m[<<"t">> \o Itoa(idx)]
  ELSE 0

\* The Value pushed for a temp token.
tempValue(r, tok) ==
  [ZeroValue EXCEPT !.V = tempRead(r, tempIndex(tok)),
                    !.TempIndex = tempIndex(tok), !.IsTemp = TRUE]

(***************************************************************************)
(* evalRPN: operators.  Each operator takes the RD and its popped operands *)
(* (left operand first) and yields an Outcome: the pushed Value or the     *)
(* error, and the RD as the operator left it.                              *)
(***************************************************************************)
RollCap == 10000

\* case "+", "-", "*", "/", ">", "<", "&", "|", "^"
opArith(r, tok, a, b) ==
  CASE tok = <<"+">> -> Outcome(Scalar(a.V + b.V), ErrNone, r)
    [] tok = <<"-">> -> Outcome(Scalar(a.V - b.V), ErrNone, r)
    [] tok = <<"*">> -> Outcome(Scalar(a.V * b.V), ErrNone, r)
    [] tok = <<"/">> -> IF b.V = 0 THEN Fail(ErrNodeRightValInvalid, r)
                        ELSE Outcome(Scalar(GoDiv(a.V, b.V)), ErrNone, r)
    [] tok = <<">">> -> Outcome(Scalar(IF a.V > b.V THEN 1 ELSE 0), ErrNone, r)
    [] tok = <<"<">> -> Outcome(Scalar(IF a.V < b.V THEN 1 ELSE 0), ErrNone, r)
    [] tok = <<"&">> -> Outcome(Scalar(BitAnd(a.V, b.V)), ErrNone, r)
    [] tok = <<"|">> -> Outcome(Scalar(BitOr(a.V, b.V)), ErrNone, r)
    [] tok = <<"^">> -> IF a.V = 0 /\ b.V = 0 THEN Fail(ErrNodeLeftValInvalid, r)
                        ELSE IF b.V < 0 THEN Fail(ErrNodeRightValInvalid, r)
                        ELSE Outcome(Scalar(Pow(a.V, b.V)), ErrNone, r)

\* The first meta element of a list taken as the scalar.
firstOrV(v) == IF v.MetaEnable /\ Len(v.Meta) > 0 THEN v.Meta[1] ELSE v.V

\* The scalar `d` takes from an operand: the last meta element of a list.
lastOrV(v) == IF v.MetaEnable /\ Len(v.Meta) > 0 THEN v.Meta[Len(v.Meta)] ELSE v.V

\* The dice throw that checks the faces before the number of dice.
opDiceFacesFirst(r, timesV, sidesV) ==
  LET sides == lastOrV(sidesV)
      times == lastOrV(timesV)
  IN  IF sides <= 0 \/ sides > 10000 THEN Fail(ErrNodeRightValInvalid, r)
      ELSE IF times <= 0 \/ times > 10000 THEN Fail(ErrNodeLeftValInvalid, r)
      ELSE LET d == DrawMany(r, times, sides, 1, <<>>)
           IN  Outcome(ListValue(SumSeq(d.rolls), d.rolls, TRUE), ErrNone, d.r)

\* case "d"
opDice(r, timesV, sidesV) ==
  LET sides == lastOrV(sidesV)
      times == lastOrV(timesV)
  IN  IF times <= 0 \/ times > 10000 THEN Fail(ErrNodeLeftValInvalid, r)
      ELSE IF sides <= 0 \/ sides > 10000 THEN Fail(ErrNodeRightValInvalid, r)
      ELSE LET d == DrawMany(r, times, sides, 1, <<>>)
           IN  Outcome(ListValue(SumSeq(d.rolls), d.rolls, TRUE), ErrNone, d.r)

\* case "k" (mode kh) and case "q" (mode kl)
opKeepKQ(r, mode, left, param) ==
  IF param.V <= 0 THEN Fail(ErrNodeRightValInvalid, r)
  ELSE LET selected(s, r2) ==
             Outcome(ListValue(s.sum, s.sel, Len(s.sel) > 0), ErrNone, r2)
           resolved(rv) ==
             IF ~rv.ok THEN Fail(ErrNodeLeftValInvalid, rv.r)
             ELSE selected(selectFromMeta(rv.vals, param.V, mode), rv.r)
       IN  resolved(resolveMetaValues(r, left))

\* case "kh", "kl", "dh", "dl"
opSelect(r, tok, leftOp, paramOp) ==
  IF paramOp.V <= 0 THEN Fail(ErrNodeRightValInvalid, r)
  ELSE LET selected(s, r2) ==
             Outcome(ListValue(s.sum, s.sel, Len(s.sel) > 0), ErrNone, r2)
           resolved(rv) ==
             IF ~rv.ok THEN Fail(ErrNodeLeftValInvalid, rv.r)
             ELSE IF Len(rv.vals) = 0 THEN Fail(ErrNodeLeftValInvalid, rv.r)
             ELSE selected(selectFromMeta(rv.vals, paramOp.V, tok), rv.r)
       IN  resolved(resolveMetaValues(r, leftOp))

CountGE(rolls, threshold) == Cardinality({i \in DOMAIN rolls : rolls[i] >= threshold})

RECURSIVE MaxOf(_, _)
MaxOf(s, acc) ==
  IF s = <<>> THEN acc ELSE MaxOf(Tail(s), IF Head(s) > acc THEN Head(s) ELSE acc)

RECURSIVE MinOf(_, _)
MinOf(s, acc) ==
  IF s = <<>> THEN acc ELSE MinOf(Tail(s), IF Head(s) < acc THEN Head(s) ELSE acc)

\* The round loop of "a" and "a_m": [total, meta, r]
RECURSIVE chainRoundsA(_, _, _, _, _, _)
chainRoundsA(r, nextCount, threshold, m, total, meta) ==
  IF nextCount <= 0 THEN [total |-> total, meta |-> meta, r |-> r]
  ELSE LET d == DrawMany(r, nextCount, m, 1, <<>>)
           hits == CountGE(d.rolls, threshold)
           meta2 == meta \o d.rolls
       IN  IF Len(meta2) > RollCap
             THEN [total |-> total + hits, meta |-> meta2, r |-> d.r]
             ELSE chainRoundsA(d.r, hits, threshold, m, total + hits, meta2)

\* The round loop of "c" that adds up every roll of a round instead of the
\* round's maximum.
RECURSIVE chainRoundsCSum(_, _, _, _, _, _)
chainRoundsCSum(r, nextC, thresholdC, mC, totalC, metaC) ==
  IF nextC <= 0 THEN [total |-> totalC, meta |-> metaC, r |-> r]
  ELSE LET d == DrawMany(r, nextC, mC, 1, <<>>)
           hits == CountGE(d.rolls, thresholdC)
           meta2 == metaC \o d.rolls
           total2 == totalC + SumSeq(d.rolls)
       IN  IF Len(meta2) > RollCap
             THEN [total |-> total2, meta |-> meta2, r |-> d.r]
             ELSE chainRoundsCSum(d.r, hits, thresholdC, mC, total2, meta2)

\* The round loop of "c" and "c_m": [total, meta, r]
RECURSIVE chainRoundsC(_, _, _, _, _, _)
chainRoundsC(r, nextC, thresholdC, mC, totalC, metaC) ==
  IF nextC <= 0 THEN [total |-> totalC, meta |-> metaC, r |-> r]
  ELSE LET d == DrawMany(r, nextC, mC, 1, <<>>)
           hits == CountGE(d.rolls, thresholdC)
           meta2 == metaC \o d.rolls
           total2 == totalC + MaxOf(d.rolls, 0)
       IN  IF Len(meta2) > RollCap
             THEN [total |-> total2, meta |-> meta2, r |-> d.r]
             ELSE chainRoundsC(d.r, hits, thresholdC, mC, total2, meta2)

\* The chain that stops after its first round.
opChainOneRound(r, kind, leftV, rightV, m) ==
  IF leftV.V < 0 \/ leftV.V > 10000 THEN Fail(ErrNodeLeftValInvalid, r)
  ELSE IF rightV.V <= 0 \/ rightV.V > 10000 THEN Fail(ErrNodeRightValInvalid, r)
  ELSE IF m <= 0 \/ m > 10000 THEN Fail(ErrNodeRightValInvalid, r)
  ELSE LET d == DrawMany(r, leftV.V, m, 1, <<>>)
           total == IF kind = "a" THEN CountGE(d.rolls, rightV.V) ELSE MaxOf(d.rolls, 0)
       IN  Outcome(ListValue(total, d.rolls, Len(d.rolls) > 0), ErrNone, d.r)

\* case "a" (m = 10), "a_m", "c" (m = 10), "c_m"
opChain(r, kind, leftV, rightV, m) ==
  IF leftV.V < 0 \/ leftV.V > 10000 THEN Fail(ErrNodeLeftValInvalid, r)
  ELSE IF rightV.V <= 0 \/ rightV.V > 10000 THEN Fail(ErrNodeRightValInvalid, r)
  ELSE IF m <= 0 \/ m > 10000 THEN Fail(ErrNodeRightValInvalid, r)
  ELSE LET c == IF kind = "a" THEN chainRoundsA(r, leftV.V, rightV.V, m, 0, <<>>)
                ELSE chainRoundsC(r, leftV.V, rightV.V, m, 0, <<>>)
       IN  Outcome(ListValue(c.total, c.meta, Len(c.meta) > 0), ErrNone, c.r)

\* The percentile throw with the two replacements exchanged: "b" takes the
\* maximum of the extra digits and "p" their minimum.
opBonusExchanged(r, tok, left, param) ==
  IF param.V < 0 THEN Fail(ErrNodeRightValInvalid, r)
  ELSE IF param.V > 10000 THEN Fail(ErrNodeRightValInvalid, r)
  ELSE IF left.V > 10000 THEN Fail(ErrNodeLeftValInvalid, r)
  ELSE LET t == DrawMany(r, 2, 10, 0, <<>>)
           x == DrawMany(t.r, param.V, 10, 0, <<>>)
           tens0 == t.rolls[1]
           units == t.rolls[2]
           rolls == x.rolls
           tens == IF tens0 = 0 /\ units = 0 THEN tens0
                   ELSE IF Len(rolls) = 0 THEN tens0
                   ELSE IF tok = <<"b">> THEN MaxOf(Tail(rolls), rolls[1])
                   ELSE MinOf(Tail(rolls), rolls[1])
           out == IF tens0 = 0 /\ units = 0 THEN 100 ELSE tens * 10 + units
       IN  Outcome(ListValue(out, <<tens, units>> \o rolls, TRUE), ErrNone, x.r)

\* case "b" (tens replaced by the minimum of the extra digits) and
\* case "p" (by their maximum)
opBonus(r, tok, left, param) ==
  IF param.V < 0 THEN Fail(ErrNodeRightValInvalid, r)
  ELSE IF param.V > 10000 THEN Fail(ErrNodeRightValInvalid, r)
  ELSE IF left.V > 10000 THEN Fail(ErrNodeLeftValInvalid, r)
  ELSE LET t == DrawMany(r, 2, 10, 0, <<>>)
           x == DrawMany(t.r, param.V, 10, 0, <<>>)
           tens0 == t.rolls[1]
           units == t.rolls[2]
           rolls == x.rolls
           tens == IF tens0 = 0 /\ units = 0 THEN tens0
                   ELSE IF Len(rolls) = 0 THEN tens0
                   ELSE IF tok = <<"b">> THEN MinOf(Tail(rolls), rolls[1])
                   ELSE MaxOf(Tail(rolls), rolls[1])
           out == IF tens0 = 0 /\ units = 0 THEN 100 ELSE tens * 10 + units
       IN  Outcome(ListValue(out, <<tens, units>> \o rolls, TRUE), ErrNone, x.r)

\* The assignment without the mirror into the variable table.
assignTempNoMirror(r, idx, v) ==
  [r EXCEPT !.temp = [k \in DOMAIN r.temp \cup {idx} |-> IF k = idx THEN v ELSE r.temp[k]]]

\* r.temp[idx] = v and r.ValueTable["T<idx>"] = v
assignTemp(r, idx, v) ==
  [r EXCEPT !.temp = [k \in DOMAIN r.temp \cup {idx} |-> IF k = idx THEN v ELSE r.temp[k]],
            !.ValueTable =
              [nil |-> FALSE,
               m |-> LET old == IF r.ValueTable.nil THEN <<>> ELSE r.ValueTable.m
                     IN  [k \in DOMAIN old \cup {tempKey(idx)} |->
                            IF k = tempKey(idx) THEN v ELSE old[k]]]]

\* case "="
opAssign(r, leftA, rightA) ==
  IF ~leftA.IsTemp THEN Fail(ErrNodeLeftValInvalid, r)
  ELSE Outcome(Scalar(rightA.V), ErrNone,
               Logged(assignTemp(r, leftA.TempIndex, rightA.V),
                      "assign", leftA.TempIndex, rightA.V, 0))

\* strings.ReplaceAll(s, old, new) for a non-empty old
RECURSIVE ReplaceAll(_, _, _)
ReplaceAll(s, old, new) ==
  IF Len(s) < Len(old) THEN s
  ELSE IF SubSeq(s, 1, Len(old)) = old
    THEN new \o ReplaceAll(SubSeq(s, Len(old) + 1, Len(s)), old, new)
  ELSE <<Head(s)>> \o ReplaceAll(Tail(s), old, new)

\* s repeated n times
RECURSIVE Repeat(_, _)
Repeat(s, n) == IF n <= 0 THEN <<>> ELSE s \o Repeat(s, n - 1)

\* The expansion of the lp templates: element k (1-based) of the output is
\* template ((k-1) mod |templates|) + 1 with {i} replaced by k.
lpExpand(templates, times) ==
  [k \in 1..(Len(templates) * times) |->
     ReplaceAll(templates[((k - 1) % Len(templates)) + 1], <<"{", "i", "}">>, Itoa(k))]

\* case "lp"
opLp(r, leftLp, paramLp) ==
  IF paramLp.V <= 0 THEN Fail(ErrNodeRightValInvalid, r)
  ELSE IF Len(leftLp.MetaStr) > 0
    THEN Outcome(StrValue(lpExpand(leftLp.MetaStr, paramLp.V)), ErrNone, r)
  ELSE LET repeated(newList, r2) ==
             Outcome(ListValue(SumSeq(newList), newList, Len(newList) > 0), ErrNone, r2)
           resolved(rv) ==
             IF ~rv.ok THEN Fail(ErrNodeLeftValInvalid, rv.r)
             ELSE repeated(Repeat(rv.vals, paramLp.V), rv.r)
       IN  resolved(resolveMetaValues(r, leftLp))

\* case "min", "max"
opMinMax(r, tok, leftOp2, paramOp2) ==
  IF paramOp2.V <= 0 THEN Fail(ErrNodeRightValInvalid, r)
  ELSE LET n2 == paramOp2.V
           rollsRaw2 == IF ~leftOp2.MetaEnable THEN <<leftOp2.V>> ELSE leftOp2.Meta
           resList == [i \in DOMAIN rollsRaw2 |->
                         IF tok = <<"m", "a", "x">>
                           THEN IF rollsRaw2[i] > n2 THEN n2 ELSE rollsRaw2[i]
                           ELSE IF rollsRaw2[i] < n2 THEN n2 ELSE rollsRaw2[i]]
       IN  Outcome(ListValue(SumSeq(resList), resList, TRUE), ErrNone, r)

\* case "f"
opFudge(r, leftF, rightF) ==
  IF rightF.V <= 1 \/ rightF.V > 10000 THEN Fail(ErrNodeRightValInvalid, r)
  ELSE IF leftF.V <= 0 \/ leftF.V > 10000 THEN Fail(ErrNodeLeftValInvalid, r)
  ELSE LET d == DrawMany(r, leftF.V, 3, 0 - 1, <<>>)
       IN  Outcome(ListValue(SumSeq(d.rolls), d.rolls, TRUE), ErrNone, d.r)

\* The position with a negative index counted from one place too far back.
indexPosShifted(idx, n) == IF idx > 0 THEN idx - 1 ELSE n + idx - 1

\* The 0-based position sp and tp compute from a 1-based or negative index.
indexPos(idx, len) == IF idx > 0 THEN idx - 1 ELSE len + idx

\* case "sp"
opSp(r, leftSp, paramSp) ==
  LET idx == paramSp.V
      rollsSp == leftSp.Meta
      pos == indexPos(idx, Len(rollsSp))
  IN  IF ~leftSp.MetaEnable
        THEN IF idx = 1 \/ idx = 0 - 1
               THEN Outcome(ListValue(leftSp.V, <<leftSp.V>>, TRUE), ErrNone, r)
               ELSE Fail(ErrNodeLeftValInvalid, r)
      ELSE IF idx = 0 THEN Fail(ErrNodeRightValInvalid, r)
      ELSE IF pos < 0 \/ pos >= Len(rollsSp) THEN Fail(ErrNodeRightValInvalid, r)
      ELSE Outcome(ListValue(rollsSp[pos + 1], <<rollsSp[pos + 1]>>, TRUE), ErrNone, r)

\* case "tp"
opTp(r, leftTp, paramTp) ==
  LET idx2 == paramTp.V
      rollsTp == leftTp.Meta
      pos2 == indexPos(idx2, Len(rollsTp))
      newList == SubSeq(rollsTp, 1, pos2) \o SubSeq(rollsTp, pos2 + 2, Len(rollsTp))
  IN  IF ~leftTp.MetaEnable
        THEN IF idx2 = 1 \/ idx2 = 0 - 1
               THEN Outcome(ListValue(0, <<>>, FALSE), ErrNone, r)
               ELSE Fail(ErrNodeLeftValInvalid, r)
      ELSE IF idx2 = 0 THEN Fail(ErrNodeRightValInvalid, r)
      ELSE IF pos2 < 0 \/ pos2 >= Len(rollsTp) THEN Fail(ErrNodeRightValInvalid, r)
      ELSE Outcome(ListValue(SumSeq(newList), newList, Len(newList) > 0), ErrNone, r)

\* case ":" in postfix: a is the condition, b the true value, c the false value
opColon(r, a, b, c) == Outcome(IF a.V # 0 THEN b ELSE c, ErrNone, r)

(***************************************************************************)
(* evalRPN: the stack machine                                              *)
(***************************************************************************)
ArithTokens ==
  {<<"+">>, <<"-">>, <<"*">>, <<"/">>, <<">">>, <<"<">>, <<"&">>, <<"|">>, <<"^">>}

BinaryTokens ==
  ArithTokens \cup
  {<<"d">>, <<"k">>, <<"q">>, <<"a">>, <<"c">>, <<"b">>, <<"p">>, <<"=">>, <<"l", "p">>,
   <<"k", "h">>, <<"k", "l">>, <<"d", "h">>, <<"d", "l">>, <<"m", "i", "n">>,
   <<"m", "a", "x">>, <<"f">>, <<"s", "p">>, <<"t", "p">>}

TernaryTokens == {<<":">>, <<"a", "_", "m">>, <<"c", "_", "m">>}

\* The switch of evalRPN on a binary operator token, a the left operand.
applyBinary(r, tok, a, b) ==
  CASE tok \in ArithTokens -> opArith(r, tok, a, b)
    [] tok = <<"d">> -> opDice(r, a, b)
    [] tok = <<"k">> -> opKeepKQ(r, <<"k", "h">>, a, b)
    [] tok = <<"q">> -> opKeepKQ(r, <<"k", "l">>, a, b)
    [] tok = <<"a">> -> opChain(r, "a", a, b, 10)
    [] tok = <<"c">> -> opChain(r, "c", a, b, 10)
    [] tok \in {<<"b">>, <<"p">>} -> opBonus(r, tok, a, b)
    [] tok = <<"=">> -> opAssign(r, a, b)
    [] tok = <<"l", "p">> -> opLp(r, a, b)
    [] tok \in {<<"k", "h">>, <<"k", "l">>, <<"d", "h">>, <<"d", "l">>} -> opSelect(r, tok, a, b)
    [] tok \in {<<"m", "i", "n">>, <<"m", "a", "x">>} -> opMinMax(r, tok, a, b)
    [] tok = <<"f">> -> opFudge(r, a, b)
    [] tok = <<"s", "p">> -> opSp(r, a, b)
    [] tok = <<"t", "p">> -> opTp(r, a, b)

\* The switch of evalRPN on a three-operand token.
applyTernary(r, tok, a, b, c) ==
  CASE tok = <<":">> -> opColon(r, a, b, c)
    [] tok = <<"a", "_", "m">> -> opChain(r, "a", a, b, c.V)
    [] tok = <<"c", "_", "m">> -> opChain(r, "c", a, b, c.V)

RECURSIVE evalRPNFrom(_, _, _, _)
evalRPNFrom(r, rpn, i, st) ==
  IF i > Len(rpn)
    THEN IF Len(st) # 1 THEN Fail(ErrUnknownGenerate, r) ELSE Outcome(st[1], ErrNone, r)
  ELSE LET tok == rpn[i]
           n == Len(st)
           \* the operator's result replaces its k operands on the stack
           pushed(o, k) ==
             IF o.err # ErrNone THEN Fail(o.err, o.r)
             ELSE evalRPNFrom(o.r, rpn, i + 1, Append(SubSeq(st, 1, n - k), o.val))
       IN
    IF Atoi(tok).ok THEN evalRPNFrom(r, rpn, i + 1, Append(st, Scalar(Atoi(tok).v)))
    ELSE IF isTupleToken(tok) THEN evalRPNFrom(r, rpn, i + 1, Append(st, tupleLiteral(tok)))
    ELSE IF isStringToken(tok)
      THEN evalRPNFrom(r, rpn, i + 1, Append(st, StrValue(<<SubSeq(tok, 2, Len(tok) - 1)>>)))
    ELSE IF HasPrefix(tok, <<"$">>)
      THEN evalRPNFrom(Logged(r, "read", tempIndex(tok), tempRead(r, tempIndex(tok)),
                              IF tempIndex(tok) \in DOMAIN r.temp THEN 1 ELSE 0),
                       rpn, i + 1, Append(st, tempValue(r, tok)))
    ELSE IF tok \in TernaryTokens
      THEN IF n < 3 THEN Fail(ErrNodeStackEmpty, r)
           ELSE pushed(applyTernary(r, tok, st[n - 2], st[n - 1], st[n]), 3)
    ELSE IF tok \in BinaryTokens
      THEN IF n < 2 THEN Fail(ErrNodeStackEmpty, r)
           ELSE pushed(applyBinary(r, tok, st[n - 1], st[n]), 2)
    ELSE Fail(ErrUnknownGenerate, r)

evalRPN(r, rpn) == evalRPNFrom(r, rpn, 1, <<>>)

(***************************************************************************)
(* evalTokens: the ternary dispatcher                                      *)
(*                                                                         *)
(* Beside the token list the model carries two history arguments: org, the *)
(* index each token had in the token list Roll started from (a folded      *)
(* group's literal keeps the index of its opening parenthesis), and lead,  *)
(* the token that preceded the list in its parent list ("" at the start).  *)
(***************************************************************************)
\* The backward scan for the parenthesis matching the ")" at i: its index, or 0.
RECURSIVE matchOpen(_, _, _)
matchOpen(tokens, k, d) ==
  IF k < 1 THEN 0
  ELSE LET d2 == IF tokens[k] = <<")">> THEN d + 1
                 ELSE IF tokens[k] = <<"(">> THEN d - 1
                 ELSE d
       IN  IF d2 = 0 THEN k ELSE matchOpen(tokens, k - 1, d2)

\* The folding loop without the deferral of ternary branches.
isBranchParenNever(tokens, oi) == FALSE

\* A group is left to the ternary split when its "(" directly follows "?" or ":".
isBranchParen(tokens, oi) ==
  oi > 1 /\ tokens[oi - 1] \in {<<"?">>, <<":">>}

\* The scan for the first ")" whose group is to be folded, from index i:
\* [found, bad, open, close]; bad when a ")" has no matching "(".
RECURSIVE findFoldable(_, _)
findFoldable(tokens, i) ==
  IF i > Len(tokens) THEN [found |-> FALSE, bad |-> FALSE, open |-> 0, close |-> 0]
  ELSE IF tokens[i] # <<")">> THEN findFoldable(tokens, i + 1)
  ELSE LET oi == matchOpen(tokens, i, 0)
       IN  IF oi = 0 THEN [found |-> FALSE, bad |-> TRUE, open |-> 0, close |-> 0]
           ELSE IF isBranchParen(tokens, oi) THEN findFoldable(tokens, i + 1)
           ELSE [found |-> TRUE, bad |-> FALSE, open |-> oi, close |-> i]

\* The forward scan for the ")" matching the "(" at index 1: its index, or 0.
RECURSIVE matchClose(_, _, _)
matchClose(tokens, i, d) ==
  IF i > Len(tokens) THEN 0
  ELSE LET d2 == IF tokens[i] = <<"(">> THEN d + 1
                 ELSE IF tokens[i] = <<")">> THEN d - 1
                 ELSE d
       IN  IF d2 = 0 THEN i ELSE matchClose(tokens, i + 1, d2)

\* How many outer pairs of parentheses wrapping the whole list are stripped.
RECURSIVE outerPairs(_)
outerPairs(tokens) ==
  IF Len(tokens) >= 2 /\ tokens[1] = <<"(">> /\ matchClose(tokens, 1, 0) = Len(tokens)
    THEN 1 + outerPairs(SubSeq(tokens, 2, Len(tokens) - 1))
    ELSE 0

\* The scan for the ":" matching the top-level "?" at index q, from index j:
\* its index, or 0.
RECURSIVE matchColon(_, _, _, _)
matchColon(tokens, j, depth, qcount) ==
  IF j > Len(tokens) THEN 0
  ELSE LET d2 == IF tokens[j] = <<"(">> THEN depth + 1
                 ELSE IF tokens[j] = <<")">> THEN depth - 1
                 ELSE depth
       IN  IF tokens[j] = <<"?">> /\ d2 = 0 THEN matchColon(tokens, j + 1, d2, qcount + 1)
           ELSE IF tokens[j] = <<":">> /\ d2 = 0
             THEN IF qcount - 1 = 0 THEN j ELSE matchColon(tokens, j + 1, d2, qcount - 1)
           ELSE matchColon(tokens, j + 1, d2, qcount)

\* The scan for the first top-level "?", from index i: its index, or 0.
RECURSIVE findQuestion(_, _, _)
findQuestion(tokens, i, depth) ==
  IF i > Len(tokens) THEN 0
  ELSE IF tokens[i] = <<"(">> THEN findQuestion(tokens, i + 1, depth + 1)
  ELSE IF tokens[i] = <<")">> THEN findQuestion(tokens, i + 1, depth - 1)
  ELSE IF tokens[i] = <<"?">> /\ depth = 0 THEN i
  ELSE findQuestion(tokens, i + 1, depth)

\* The branch the ternary evaluates for a condition value: "t" or "f".
selectBranch(condV) == IF condV # 0 THEN "t" ELSE "f"

\* The straight-line tail of evalTokens: preprocess, convert, evaluate.
evalStraight(r, tokens) ==
  LET converted(rpn) ==
        IF ~rpn.ok THEN Fail(ErrUnknownGenerate, r) ELSE evalRPN(r, rpn.out)
  IN  converted(toRPN(preProcessTokens(tokens, r.DefaultFaces)))

RECURSIVE evalTokensAt(_, _, _, _)

\* evalTokens after the folding loop: strip outer pairs, split at a top-level
\* "?", else evaluate the straight-line list.
evalSplit(r, tokens0, org0, lead0) ==
  LET np == outerPairs(tokens0)
      tokens == SubSeq(tokens0, np + 1, Len(tokens0) - np)
      org == SubSeq(org0, np + 1, Len(org0) - np)
      lead == IF np > 0 THEN "(" ELSE lead0
      q == findQuestion(tokens, 1, 0)
      c == IF q = 0 THEN 0 ELSE matchColon(tokens, q + 1, 0, 1)
  IN  IF q = 0 THEN evalStraight(r, tokens)
      ELSE IF c = 0 THEN Fail(ErrUnknownGenerate, r)
      ELSE LET branch(cond) ==
                 IF cond.err # ErrNone THEN Fail(cond.err, cond.r)
                 ELSE IF selectBranch(cond.val.V) = "t"
                   THEN evalTokensAt(Logged(cond.r, "branch", 1, org[q], org[c]),
                          SubSeq(tokens, q + 1, c - 1), SubSeq(org, q + 1, c - 1), "?")
                   ELSE evalTokensAt(Logged(cond.r, "branch", 0, org[q], org[c]),
                          SubSeq(tokens, c + 1, Len(tokens)), SubSeq(org, c + 1, Len(org)), ":")
           IN  branch(evalTokensAt(r, SubSeq(tokens, 1, q - 1), SubSeq(org, 1, q - 1), lead))

\* The token list with the parentheses at open and close taken away and the
\* group's tokens left in place.
foldReplaceUnwrapping(tokens, open, close, v) ==
  SubSeq(tokens, 1, open - 1) \o SubSeq(tokens, open + 1, close - 1)
    \o SubSeq(tokens, close + 1, Len(tokens))

\* The token list with the group open..close replaced by the literal of v.
foldReplace(tokens, open, close, v) ==
  SubSeq(tokens, 1, open - 1) \o <<Itoa(v)>> \o SubSeq(tokens, close + 1, Len(tokens))

evalTokensAt(r, tokens, org, lead) ==
  LET f == findFoldable(tokens, 1)
  IN  IF f.bad THEN Fail(ErrUnknownGenerate, r)
      ELSE IF ~f.found THEN evalSplit(r, tokens, org, lead)
      ELSE LET eager == IF f.open > 1 \/ lead \notin {"?", ":"} THEN 1 ELSE 0
               replaced(inner) ==
                 IF inner.err # ErrNone THEN Fail(inner.err, inner.r)
                 ELSE evalTokensAt(
                        Logged(inner.r, "folded", org[f.open], org[f.close], inner.val.V),
                        foldReplace(tokens, f.open, f.close, inner.val.V),
                        SubSeq(org, 1, f.open) \o SubSeq(org, f.close + 1, Len(org)),
                        lead)
           IN  replaced(evalTokensAt(
                          Logged(r, "fold", org[f.open], org[f.close], eager),
                          SubSeq(tokens, f.open + 1, f.close - 1),
                          SubSeq(org, f.open + 1, f.close - 1), "("))

evalTokens(r, tokens) == evalTokensAt(r, tokens, [i \in DOMAIN tokens |-> i], "")

(***************************************************************************)
(* Roll and buildDetail                                                    *)
(***************************************************************************)
\* Byte-wise string order (sort.Strings).
RECURSIVE StrLess(_, _)
StrLess(a, b) ==
  IF b = <<>> THEN FALSE
  ELSE IF a = <<>> THEN TRUE
  ELSE IF Head(a) = Head(b) THEN StrLess(Tail(a), Tail(b))
  ELSE IndexOf(AsciiOrder, Head(a)) < IndexOf(AsciiOrder, Head(b))

\* The elements of a finite set of integers in ascending order (sort.Ints).
RECURSIVE SortedInts(_)
SortedInts(S) ==
  IF S = {} THEN <<>>
  ELSE LET x == CHOOSE x \in S : \A y \in S : x <= y
       IN  <<x>> \o SortedInts(S \ {x})

\* The elements of a finite set of strings in ascending order (sort.Strings).
RECURSIVE SortedStrings(_)
SortedStrings(S) ==
  IF S = {} THEN <<>>
  ELSE LET x == CHOOSE x \in S : \A y \in S : x = y \/ StrLess(x, y)
       IN  <<x>> \o SortedStrings(S \ {x})

\* buildDetail(val): the parts joined by a blank.
buildDetail(r, val) ==
  LET valuePart == <<Itoa(val.V)>>
      metaPart ==
        IF val.MetaEnable /\ Len(val.MetaStr) > 0
          THEN <<<<"[">> \o Join([i \in DOMAIN val.MetaStr |->
                                    <<"\"">> \o val.MetaStr[i] \o <<"\"">>], <<",">>)
                         \o <<"]">>>>
        ELSE IF val.MetaEnable /\ ~val.MetaNil
          THEN <<<<"[">> \o Join([i \in DOMAIN val.Meta |-> Itoa(val.Meta[i])], <<",">>)
                         \o <<"]">>>>
        ELSE <<>>
      rangePart ==
        IF val.V # 0 /\ r.res.Min # r.res.Max
          THEN << <<"m", "i", "n", "=">> \o Itoa(r.res.Min),
                  <<"m", "a", "x", "=">> \o Itoa(r.res.Max) >>
          ELSE <<>>
      tkeys == SortedInts(DOMAIN r.temp)
      tempPart ==
        IF Len(tkeys) > 0
          THEN << <<"t", "e", "m", "p", ":", "{">>
                  \o Join([i \in DOMAIN tkeys |->
                             <<"t">> \o Itoa(tkeys[i]) \o <<"=">> \o Itoa(r.temp[tkeys[i]])],
                          <<",">>)
                  \o <<"}">> >>
          ELSE <<>>
      vkeys == IF r.ValueTable.nil THEN <<>> ELSE SortedStrings(DOMAIN r.ValueTable.m)
      vtPart ==
        IF Len(vkeys) > 0
          THEN << <<"v", "t", ":", "{">>
                  \o Join([i \in DOMAIN vkeys |->
                             vkeys[i] \o <<"=">> \o Itoa(r.ValueTable.m[vkeys[i]])],
                          <<",">>)
                  \o <<"}">> >>
          ELSE <<>>
  IN  Join(valuePart \o metaPart \o rangePart \o tempPart \o vtPart, <<" ">>)

\* Roll appending the value's meta list to the MetaTuple it already holds.
rollMetaAppending(r, val) ==
  [r EXCEPT !.res.MetaTuple = [ints |-> @.ints \o val.Meta, strs |-> @.strs \o val.MetaStr]]

\* The MetaTuple Roll stores for a value with MetaEnable; the RD after the
\* getFromMetaTuple call Roll makes on an integer meta list.
rollMeta(r, val) ==
  IF Len(val.MetaStr) > 0
    THEN [r EXCEPT !.res.MetaTuple = [ints |-> <<>>, strs |-> val.MetaStr]]
    ELSE LET data == [i \in DOMAIN val.Meta |-> IntEl(val.Meta[i])]
             r1 == [r EXCEPT !.res.MetaTuple = [ints |-> val.Meta, strs |-> <<>>]]
             resolved(got) ==
               IF Len(got.res) = Len(data)
                 THEN [got.r EXCEPT !.res.MetaTuple = [ints |-> got.res, strs |-> <<>>]]
                 ELSE got.r
         IN  resolved(getFromMetaTuple(r1, data, FALSE, TRUE))

\* The fields Roll fills in after a successful evaluation.
rollSuccess(r, val) ==
  LET r1 == [r EXCEPT !.res.Value = val.V, !.res.Min = val.V, !.res.Max = val.V]
      withMeta(r2) == IF val.MetaEnable THEN rollMeta(r2, val) ELSE r2
      done(r3) == [r3 EXCEPT !.res.Error = ErrNone]
  IN  done(withMeta([r1 EXCEPT !.res.Detail = buildDetail(r1, val)]))

\* The field Roll fills in when it returns early.
rollFailure(r, err) == [r EXCEPT !.res.Error = err]

\* Roll that on failure puts back the temp store, the variable table and the
\* generator it started with.
RollRestoring(r) ==
  LET failed(o) ==
        [rollFailure(o.r, o.err) EXCEPT !.temp = r.temp, !.ValueTable = r.ValueTable,
                                        !.rng = r.rng]
      evaluated(o) ==
        IF o.err # ErrNone THEN failed(o) ELSE rollSuccess(o.r, o.val)
      lexed(lex) ==
        IF ~lex.ok THEN rollFailure(r, ErrInputRawInvalid)
        ELSE evaluated(evalTokens(r, lex.toks))
  IN  lexed(tokenize(replaceVars(r.ValueTable, r.origin)))

Roll(r) ==
  LET evaluated(o) ==
        IF o.err # ErrNone THEN rollFailure(o.r, o.err) ELSE rollSuccess(o.r, o.val)
      lexed(lex) ==
        IF ~lex.ok THEN rollFailure(r, ErrInputRawInvalid)
        ELSE evaluated(evalTokens(r, lex.toks))
  IN  lexed(tokenize(replaceVars(r.ValueTable, r.origin)))

(***************************************************************************)
(* The state machine: one caller, one RD at a time                         *)
(*                                                                         *)
(* The caller constructs an RD for an expression and a variable table,     *)
(* sets its generator to a known stream (as the tests do), and then rolls  *)
(* it, resets the generator to the start of the stream, or constructs a    *)
(* new RD for the same expression with the same table.                     *)
(*                                                                         *)
(*   rd         the RD in use                                              *)
(*   pre        history: the RD as it was before its most recent Roll      *)
(*   runs       history: one record per Roll, the stream position, temp    *)
(*              store and table it started from, whether the RD was new,   *)
(*              and Result()                                               *)
(*   rolls      history: how many times the RD in use has been rolled      *)
(*   callerNil  whether the caller passed a nil map to New                 *)
(*   chain      the round loop of a chain operator, taken step by step     *)
(***************************************************************************)
VARIABLES rd, pre, runs, rolls, callerNil, chain

vars == <<rd, pre, runs, rolls, callerNil, chain>>

\* Bounds of the exploration.
MaxRolls == 2
SeedLen == 2
MaxRnd == 1

\* The generator streams: every stream of period SeedLen over 0..MaxRnd.
Seeds == [1..SeedLen -> 0..MaxRnd]

\* The caller's variable tables: none, an empty map, a map with entries.
EmptyTable == [nil |-> FALSE, m |-> <<>>]
SomeTable == [nil |-> FALSE, m |-> (<<"T", "1">> :> 3) @@ (<<"X">> :> 2)]
Tables == {NilTable, EmptyTable, SomeTable}

\* r := New(expr, vt); r.rng = rand.New(rand.NewSource(seed))
NewRD(expr, vt, seed) == [New(expr, vt) EXCEPT !.rng = [seed |-> seed, pos |-> 0]]

InitOver(exprs, tables, seeds) ==
  /\ \E e \in exprs, vt \in tables, s \in seeds :
       /\ rd = NewRD(e, vt, s)
       /\ callerNil = vt.nil
  /\ pre = rd
  /\ runs = <<>>
  /\ rolls = 0
  /\ chain = [pc |-> "idle"]

\* r.Roll()
RollRD ==
  /\ Len(runs) < MaxRolls
  /\ rd' = Roll(rd)
  /\ pre' = rd
  /\ runs' = Append(runs, [pos |-> rd.rng.pos, first |-> rolls = 0, temp |-> rd.temp,
                            table |-> rd.ValueTable, res |-> rd'.res])
  /\ rolls' = rolls + 1
  /\ UNCHANGED <<callerNil, chain>>

\* r.rng = rand.New(rand.NewSource(seed)), with the seed used before
Reseed ==
  /\ rd.rng.pos # 0
  /\ rd' = [rd EXCEPT !.rng.pos = 0]
  /\ UNCHANGED <<pre, runs, rolls, callerNil, chain>>

\* A new RD for the same expression and the caller's same map, its generator
\* set to the same seed.
NewAgain ==
  /\ rolls > 0
  /\ rd' = NewRD(rd.Expr, IF callerNil THEN NilTable ELSE rd.ValueTable, rd.rng.seed)
  /\ pre' = rd'
  /\ rolls' = 0
  /\ UNCHANGED <<runs, callerNil, chain>>

Next == RollRD \/ Reseed \/ NewAgain

(***************************************************************************)
(* Expressions                                                             *)
(***************************************************************************)
\* The operators that consume a tuple operand.
TupleOps ==
  { <<"k">>, <<"q">>, <<"k", "h">>, <<"k", "l">>, <<"d", "h">>, <<"d", "l">>, <<"m", "i", "n">>, <<"m", "a", "x">>,
    <<"s", "p">>, <<"t", "p">>, <<"l", "p">> }

\* Tuple elements that fail to evaluate, each with the error kind it fails with.
BadElems == { <<"1", "/", "0">>, <<"1", "+">>, <<"1", "d", "2", "/", "0">> }

\* [bad,2]op1 and [2,bad]op1
BadTuple(bad, op, first) ==
  IF first THEN <<"[">> \o bad \o <<",", "2", "]">> \o op \o <<"1">>
           ELSE <<"[", "2", ",">> \o bad \o <<"]">> \o op \o <<"1">>

BadTupleCorpus ==
  { BadTuple(bad, op, first) : bad \in BadElems, op \in TupleOps, first \in BOOLEAN }

Corpus ==
  { <<"1", "+", "2", "*", "3">>, <<"(", "2", "+", "3", ")", "*", "(", "4", "-", "1", ")">>, <<"2", "*", "(", "3", "+", "(", "4", "*", "(", "1", "+", "1", ")", ")", ")">>, <<"(", "(", "1", "d", "2", ")", ")", "+", "(", "1", "d", "2", ")">>,
    <<"(", "1", "?", "(", "$", "t", "1", "=", "5", ")", ":", "(", "$", "t", "1", "=", "6", ")", ")", "+", "$", "t", "1">>, <<"(", "0", "?", "(", "$", "t", "1", "=", "5", ")", ":", "(", "$", "t", "1", "=", "6", ")", ")", "+", "$", "t", "1">>,
    <<"(", "$", "t", "1", "=", "2", ")", "+", "(", "$", "t", "1", "=", "$", "t", "1", "+", "1", ")", "*", "$", "t", "1">>, <<"(", "$", "t", "=", "4", ")", "*", "(", "$", "t", "+", "1", ")">>,
    <<"(", "1", "d", "2", ")", "*", "(", "(", "1", "d", "2", ")", "+", "(", "$", "t", "2", "=", "1", "d", "2", ")", ")", "+", "$", "t", "2">>, <<"(", "1", "?", "(", "2", "+", "(", "3", ")", ")", ":", "(", "4", ")", ")">>, <<"(", "1", "/", "0", ")", "+", "(", "$", "t", "=", "1", ")">>,
    <<"(", "1", "d", "2", "-", "1", ")", "?", "(", "$", "t", "1", "=", "5", ")", "+", "(", "1", "d", "2", ")", ":", "(", "2", "d", "2", ")">>,
    <<"$", "t", "+", "$", "t", "=", "7">>, <<"$", "t", "1", "=", "$", "t", "1", "+", "1">>, <<"2", "d", "2", "+", "1">>, <<"[", "1", "d", "2", ",", "1", "d", "2", "]", "k", "h", "1">>, <<"3", "d", "2", "k", "h", "2">>,
    <<"{", "x", "}", "+", "1", "d", "2">>, <<"{", "x", "}", "+", "$", "t", "1">>, <<"[", "4", ",", "2", ",", "6", "]", "k", "h", "2">>, <<"[", "3", ",", "4", ",", "5", "]", "s", "p", "2">>,
    <<"1", "/", "0">>, <<"(", "$", "t", "=", "5", ")", "+", "1", "/", "0">>, <<"(", "$", "t", "=", "5", ")", "+", "(", "1", "d", "2", ")", "+", "(", "1">>, <<"2", "d", "2", "+", "1", "/", "0">>, <<"[", "1", "d", "1", ",", "2", "]", "k", "h", "1", "+", "1", "/", "0">>, <<"1", "+">>, <<"(", "1">>,
    <<"1", ")">>, <<"1", "?", "2">>, <<"2", "#", "3">>, <<"[", "1", "d", "2", ",", "2", "]", "k", "h", "0">>, <<"$", "t", "1", "=", "1", "d", "2", "+", "[", "1", "/", "0", ",", "$", "t", "1", "]", "k", "h", "1">>,
    <<"$", "t", "1", "=", "3", "+", "[", "$", "t", "1", "=", "5", ",", "2", "]", "k", "h", "1">>, <<"[", "$", "t", "1", "=", "5", ",", "2", "]", "k", "h", "1">>, <<"[", "$", "t", "1", "=", "5", ",", "2", "]", "k", "h", "1", "+", "$", "t", "1", "=", "3">>,
    <<"$", "t", "2", "=", "4", "+", "$", "t", "2">>, <<"$", "t", "1", "=", "3", "+", "[", "$", "t", "1", "=", "5", ",", "1", "/", "0", "]", "k", "h", "1">>, <<"$", "t", "1", "=", "1", "+", "[", "[", "$", "t", "1", "=", "4", ",", "1", "]", "k", "h", "1", ",", "2", "]", "k", "h", "1">>,
    <<"$", "t", "1", "=", "3", "+", "[", "$", "t", "1", "=", "5", ",", "2", "]", "k", "h", "1", "+", "$", "t", "1">>, <<"[", "$", "t", "1", "=", "5", ",", "$", "t", "1", "+", "1", "]", "k", "h", "1">>, <<"[", "$", "t", "1", "=", "5", ",", "$", "t", "1", "+", "1", "]", "k", "h", "1", "+", "$", "t", "1">>,
    <<"[", "$", "t", "2", "=", "1", "d", "2", ",", "$", "t", "2", "+", "$", "t", "2", "]", "k", "l", "1", "+", "$", "t", "2">>, <<"[", "$", "t", "1", "=", "4", "+", "[", "$", "t", "1", "=", "9", ",", "$", "t", "1", "]", "k", "h", "1", "+", "$", "t", "1", ",", "$", "t", "1", "]", "k", "h", "2">>,
    <<"[", "1", "d", "2", ",", "2", "]", "k", "h", "1">>, <<"$", "t", "1", "+", "1">>, <<"[", "$", "t", "1", "+", "1", ",", "2", "]", "k", "h", "1">>, <<"[", "1", "d", "2", ",", "2", "d", "2", "]", "k", "h", "1", "+", "1", "/", "0">>,
    <<"[", "1", "d", "2", ",", "1", "/", "0", "]", "k", "h", "1">>, <<"[", "1", "/", "0", ",", "2", "]", "k", "h", "1">>, <<"[", "1", "/", "0", ",", "2", "]", "m", "a", "x", "3">>, <<"\"", "x", "{", "i", "}", "y", "\"", "l", "p", "2">> }

Init == InitOver(Corpus, Tables, Seeds)

Spec == Init /\ [][Next]_vars

\* The bad-tuple family under every table.
InitTuple == InitOver(BadTupleCorpus, Tables, Seeds)

SpecTuple == InitTuple /\ [][Next]_vars

\* cond ? A : B, at top level or inside parentheses.
TernaryConds == { <<"1">>, <<"0">>, <<"1", "d", "2", "-", "1">> }

TernaryBranches ==
  { <<"7">>, <<"(", "1", "/", "0", ")">>, <<"2", "+", "(", "1", "/", "0", ")">>, <<"(", "$", "t", "1", "=", "5", ")">>, <<"2", "+", "(", "$", "t", "1", "=", "5", ")">>, <<"1", "d", "2">>, <<"2", "*", "(", "1", "d", "2", ")">>,
    <<"[", "1", "/", "0", ",", "2", "]", "k", "h", "1">> }

Ternary(c, a, b, wrapped) ==
  IF wrapped THEN <<"(">> \o c \o <<"?">> \o a \o <<":">> \o b \o <<")">>
             ELSE c \o <<"?">> \o a \o <<":">> \o b

TernaryCorpus ==
  { Ternary(c, a, b, w) :
      c \in TernaryConds, a \in TernaryBranches, b \in TernaryBranches, w \in BOOLEAN }

InitTernary == InitOver(TernaryCorpus, {NilTable}, Seeds)

SpecTernary == InitTernary /\ [][Next]_vars

\* x op1 y op2 z over the binary operators, and x op1 y a|c t m f.
InfixOps ==
  { <<"<">>, <<">">>, <<"|">>, <<"&">>, <<"+">>, <<"-">>, <<"*">>, <<"/">>, <<"^">>,
    <<"k">>, <<"q">>, <<"k", "h">>, <<"k", "l">>, <<"d", "h">>, <<"d", "l">>, <<"m", "i", "n">>, <<"m", "a", "x">>, <<"s", "p">>, <<"t", "p">>,
    <<"l", "p">>, <<"d">>, <<"f">>, <<"a">>, <<"c">>, <<"b">>, <<"p">>, <<"=">> }

ChainOps == { <<"a", "_", "m">>, <<"c", "_", "m">> }

\* The operand to the left of op: a temp variable for "=", else the literal.
LeftOf(op, lit) == IF op = <<"=">> THEN <<"$", "t">> ELSE lit

PrecExpr(op1, op2) ==
  IF op2 \in ChainOps
    THEN LeftOf(op1, <<"2">>) \o op1 \o <<"3">> \o <<op2[1]>> \o <<"3", "m", "3">>
    ELSE LeftOf(op1, <<"2">>) \o op1 \o LeftOf(op2, <<"3">>) \o op2 \o <<"3">>

\* Every pair of operators but those that make a percentile roll (1..100) an
\* exponent, a number of repetitions or a number of dice: 2^3b3 is beyond
\* 32-bit integers, "2"lp3b3 repeats its text up to a hundred times, and 2b3a3
\* throws up to a hundred dice at once.
PrecPairs ==
  { pair \in InfixOps \X (InfixOps \cup ChainOps) :
      /\ ~(pair[1] \in { <<"^">>, <<"l", "p">> } /\ pair[2] \in { <<"b">>, <<"p">> })
      /\ ~(pair[1] \in { <<"b">>, <<"p">> } /\ pair[2] \in { <<"f">>, <<"a">>, <<"c">> } \cup ChainOps) }

PrecCorpus == { PrecExpr(pair[1], pair[2]) : pair \in PrecPairs }

InitPrec == InitOver(PrecCorpus, {NilTable}, Seeds)

SpecPrec == InitPrec /\ [][Next]_vars

\* $tN = A op B for the arithmetic operators.
ArithOps == { <<"<">>, <<">">>, <<"|">>, <<"&">>, <<"+">>, <<"-">>, <<"*">>, <<"/">>, <<"^">> }

AssignTemps == {1, 2}

AssignRights == {"lit", "temp", "dice"}

TempText(n) == IF n = 1 THEN <<"$", "t">> ELSE <<"$", "t">> \o Itoa(n)

AssignExpr(n, op, right) ==
  TempText(n) \o <<"=", "7">> \o op \o
    (CASE right = "lit" -> <<"2">> [] right = "temp" -> TempText(n) [] OTHER -> <<"1", "d", "2">>)

AssignCorpus ==
  { AssignExpr(n, op, right) : n \in AssignTemps, op \in ArithOps, right \in AssignRights }

InitAssign == InitOver(AssignCorpus, {NilTable, SomeTable}, Seeds)

SpecAssign == InitAssign /\ [][Next]_vars

\* A number as the expression text that evaluates to it: a negative one is
\* written as a parenthesized difference, which the folding loop replaces by
\* the literal.
NumText(n) == IF n < 0 THEN <<"(", "0", "-">> \o Itoa(0 - n) \o <<")">> ELSE Itoa(n)

\* The tuple literal [x1,...,xk] of the integers xs.
TupleText(xs) ==
  <<"[">> \o Join([i \in DOMAIN xs |-> Itoa(xs[i])], <<",">>) \o <<"]">>

\* L op n for kh, kl, dh, dl over tuple literals (empty, with duplicates,
\* shorter than n), a bare scalar and dice.
SelectOps == { <<"k", "h">>, <<"k", "l">>, <<"d", "h">>, <<"d", "l">> }

SelectLists == { <<>>, <<5>>, <<2, 2>>, <<4, 2, 6>>, <<3, 3, 1>>, <<1, 2, 3, 4>> }

SelectCounts == {0 - 1, 0, 1, 2, 3, 5}

SelectExpr(xs, op, n) == TupleText(xs) \o op \o NumText(n)

DiceCounts == {1, 2, 3}

DiceSelectExpr(times, op, n) == Itoa(times) \o <<"d", "2">> \o op \o NumText(n)

\* times two-sided dice, bare and as a parenthesized group.
PlainDice(times) == Itoa(times) \o <<"d", "2">>

GroupedDice(times) == <<"(">> \o PlainDice(times) \o <<")">>

GroupSelectExpr(times, op, n) == GroupedDice(times) \o op \o NumText(n)

SelectCorpus ==
  { SelectExpr(xs, op, n) : xs \in SelectLists, op \in SelectOps, n \in SelectCounts }
    \cup { DiceSelectExpr(times, op, n) : times \in DiceCounts, op \in SelectOps, n \in DiceCounts }
    \cup { GroupSelectExpr(times, op, n) : times \in DiceCounts, op \in SelectOps, n \in DiceCounts }
    \cup { PlainDice(times) : times \in DiceCounts }
    \cup { GroupedDice(times) : times \in DiceCounts }

InitSelect == InitOver(SelectCorpus, {NilTable}, Seeds)

SpecSelect == InitSelect /\ [][Next]_vars

\* left op n for every operator that consumes a list, over a bare scalar, a
\* tuple of integers, dice (a fixed and a rolled number of them) and tuples
\* with elements to evaluate; and the dice operators by themselves.
ElementLists ==
  { <<<<"4">>, <<"2">>, <<"2">>>>, <<<<"1", "d", "1">>, <<"2">>>>, <<<<"1", "d", "2">>, <<"2">>>>, <<<<"1", "d", "2">>, <<"2", "d", "2">>>> }

\* The tuple literal of the element texts es.
ElementTuple(es) == <<"[">> \o Join(es, <<",">>) \o <<"]">>

ScalarLeft == <<"5">>

ListLefts ==
  { ElementTuple(es) : es \in ElementLists } \cup { ScalarLeft, <<"3", "d", "2">>, <<"(", "1", "d", "2", ")", "d", "2">> }

ListParams == {1, 2, 3}

ListExpr(left, op, n) == left \o op \o Itoa(n)

\* L sp i and L tp i over integer tuples (empty, of one element, with
\* duplicates), a bare scalar and three dice, for every index from before
\* the first to past the last element, counted from either end.
PositionOps == { <<"s", "p">>, <<"t", "p">> }

PositionLists == { <<>>, <<5>>, <<3, 4, 5>>, <<4, 2, 6, 2>> }

PositionIndices == (0 - 5)..5

PositionDice == <<"3", "d", "2">>

PositionExpr(left, op, i) == left \o op \o NumText(i)

PositionCorpus ==
  { PositionExpr(left, op, i) :
      left \in { TupleText(xs) : xs \in PositionLists } \cup { ScalarLeft, PositionDice },
      op \in PositionOps, i \in PositionIndices }

ListCorpus ==
  { ListExpr(left, op, n) : left \in ListLefts, op \in TupleOps, n \in ListParams }
    \cup { <<"2", "d", "2">>, <<"(", "1", "d", "2", ")", "d", "2">>, <<"3", "f">>, <<"(", "1", "d", "2", ")", "f">> }

InitList == InitOver(ListCorpus, {NilTable}, Seeds)

\* kh, kl, dh, dl applied to an empty list: the literal [], and what dh, dl
\* and tp leave of a list when they take all of it.
EmptyLefts ==
  { <<"[", "]">>, <<"2", "d", "2", "d", "h", "2">>, <<"2", "d", "2", "d", "h", "3">>, <<"2", "d", "2", "d", "l", "2">>, <<"[", "4", ",", "2", "]", "d", "l", "3">>, <<"[", "5", "]", "t", "p", "1">>,
    <<"1", "d", "2", "t", "p", "(", "0", "-", "1", ")">> }

EmptiedExpr(left, op) == left \o op \o <<"1">>

EmptiedCorpus == { EmptiedExpr(left, op) : left \in EmptyLefts, op \in SelectOps }

InitPosition == InitOver(PositionCorpus \cup EmptiedCorpus, {NilTable}, Seeds)

SpecPosition == InitPosition /\ [][Next]_vars

SpecList == InitList /\ [][Next]_vars

\* N d M around the limits of both operands, [x1,...,xk] d M, and 2 d M k 1.
DiceTimes == {0 - 1, 0, 1, 2, 3, 10001}

DiceFaces == {0 - 1, 0, 1, 2, 3, 10000, 10001}

DiceExpr(n, m) == NumText(n) \o <<"d">> \o NumText(m)

DiceTuples == { <<3>>, <<2, 3>>, <<3, 2>>, <<3, 1, 2>>, <<2, 0>>, <<0, 2>>, <<1, 10001>> }

TupleFaces == {0, 2, 3}

TupleDiceExpr(xs, m) == TupleText(xs) \o <<"d">> \o Itoa(m)

KeepOneFaces == {1, 2, 3}

KeepOneExpr(m) == <<"2", "d">> \o Itoa(m) \o <<"k", "1">>

\* L op 1 and 1 op L for the arithmetic operators, and L f 3, over a tuple
\* literal and a dice result L.
ScalarTuples == { <<2, 3>>, <<3, 2>>, <<7>> }

TupleArithExpr(xs, op, onLeft) ==
  IF onLeft THEN TupleText(xs) \o op \o <<"1">> ELSE <<"1">> \o op \o TupleText(xs)

DiceArithExpr(op) == <<"2", "d", "2">> \o op \o <<"1">>

TupleFudgeExpr(xs) == TupleText(xs) \o <<"f", "3">>

DiceCorpus ==
  { DiceExpr(n, m) : n \in DiceTimes, m \in DiceFaces }
    \cup { TupleDiceExpr(xs, m) : xs \in DiceTuples, m \in TupleFaces }
    \cup { KeepOneExpr(m) : m \in KeepOneFaces }
    \cup { TupleArithExpr(xs, op, l) : xs \in ScalarTuples, op \in ArithOps, l \in BOOLEAN }
    \cup { DiceArithExpr(op) : op \in ArithOps }
    \cup { TupleFudgeExpr(xs) : xs \in ScalarTuples }

InitDice == InitOver(DiceCorpus, {NilTable}, Seeds)

SpecDice == InitDice /\ [][Next]_vars

\* left b n and left p n, under streams of the digits 0, 3 and 9.
BonusOps == { <<"b">>, <<"p">> }

BonusLefts == {0, 1, 10001}

BonusParams == {0 - 1, 0, 1, 2, 3, 10001}

BonusExpr(left, op, n) == Itoa(left) \o op \o NumText(n)

BonusCorpus == { BonusExpr(left, op, n) : left \in BonusLefts, op \in BonusOps, n \in BonusParams }

DigitSeeds == [1..SeedLen -> {0, 3, 9}]

InitBonus == InitOver(BonusCorpus, {NilTable}, DigitSeeds)

SpecBonus == InitBonus /\ [][Next]_vars

\* T a H around the limits of both operands.  The streams are those with a
\* draw of 0, a roll of 1, which is below every threshold used here: under a
\* stream whose every roll meets the threshold the chain runs to its cap.
ChainTimes == {0 - 1, 0, 1, 2, 3, 10001}

ChainThresholds == {0 - 1, 0, 2, 3, 10000, 10001}

ChainExpr(times, threshold) == NumText(times) \o <<"a">> \o NumText(threshold)

ChainCorpus == { ChainExpr(t, h) : t \in ChainTimes, h \in ChainThresholds }

ChainSeeds == { s \in Seeds : \E i \in DOMAIN s : s[i] = 0 }

InitChain == InitOver(ChainCorpus, {NilTable}, ChainSeeds)

SpecChain == InitChain /\ [][Next]_vars

\* L a H, L c H and their forms with faces, L a H m F and L c H m F, for a
\* literal left operand and for one that a dice operator produces, under the
\* streams of ChainSeeds.
FacesKinds == { <<"a">>, <<"c">> }

FacesLefts == { <<"0">>, <<"1">>, <<"2">>, <<"3">>, <<"2", "d", "2">> }

FacesThresholds == {2, 3}

FacesFaces == {2, 3, 10}

PlainExpr(left, kind, h) == left \o kind \o NumText(h)

FacesExpr(left, kind, h, f) == PlainExpr(left, kind, h) \o <<"m">> \o NumText(f)

FacesCorpus ==
  { PlainExpr(l, k, h) : l \in FacesLefts, k \in FacesKinds, h \in FacesThresholds }
  \cup { FacesExpr(l, k, h, f) :
           l \in FacesLefts, k \in FacesKinds, h \in FacesThresholds, f \in FacesFaces }

\* Operators written without an operand, each with the text that writes the
\* implied operand out, in the places an operand can be missing: alone, after
\* and before an operator, in parentheses and in either branch of a ternary.
ImpliedPairs ==
  { << <<"d", "6">>, <<"1", "d", "6">> >>, << <<"b">>, <<"1", "b", "1">> >>, << <<"p">>, <<"1", "p", "1">> >>,
    << <<"f">>, <<"4", "f", "3">> >>, << <<"d", "f">>, <<"4", "f", "3">> >>, << <<"3", "d">>, <<"3", "d", "1", "0", "0">> >>,
    << <<"d">>, <<"1", "d", "1", "0", "0">> >>, << <<"d", "%">>, <<"1", "d", "1", "0", "0">> >>, << <<"3", "d", "%">>, <<"3", "d", "1", "0", "0">> >>,
    << <<"b", "2">>, <<"1", "b", "2">> >>, << <<"2", "p">>, <<"2", "p", "1">> >>, << <<"f", "2">>, <<"4", "f", "2">> >>,
    << <<"2", "f">>, <<"2", "f", "3">> >>, << <<"a", "2">>, <<"1", "a", "2">> >>, << <<"c", "2">>, <<"1", "c", "2">> >> }

ImpliedPlaces == 1..6

Placed(place, text) ==
  CASE place = 1 -> text
    [] place = 2 -> <<"2", "+">> \o text
    [] place = 3 -> text \o <<"+", "2">>
    [] place = 4 -> <<"(">> \o text \o <<")">>
    [] place = 5 -> <<"1", "?">> \o text \o <<":", "2">>
    [] place = 6 -> <<"0", "?", "1", ":">> \o text

\* A chain operator without its threshold.
NoThreshold == { <<"2", "a">>, <<"2", "c">>, <<"a">>, <<"c">>, <<"2", "a", "+", "1">>, <<"(", "2", "c", ")">> }

ImpliedCorpus ==
  { Placed(pl, pair[1]) : pl \in ImpliedPlaces, pair \in ImpliedPairs } \cup NoThreshold

InitFaces == InitOver(FacesCorpus \cup ImpliedCorpus, {NilTable}, ChainSeeds)

SpecFaces == InitFaces /\ [][Next]_vars

\* Expressions with placeholders in either letter case, matched and
\* unmatched, empty, unclosed and with a brace too many, over the table of
\* TestVarReplace extended by a two-digit value, a negative value and a
\* lower-case key, which no placeholder matches.
StatTable ==
  [nil |-> FALSE,
   m |-> (<<"S", "T", "R">> :> 5) @@ (<<"X">> :> 12) @@ (<<"L", "O", "W">> :> (0 - 3)) @@ (<<"y">> :> 7)]

PlaceholderTables == {NilTable, EmptyTable, StatTable}

PlaceholderCorpus ==
  { <<"{", "S", "T", "R", "}", "+", "2">>, <<"{", "s", "t", "r", "}", "+", "2">>, <<"{", "S", "t", "r", "}", "*", "{", "x", "}">>, <<"{", "x", "}", "{", "x", "}">>, <<"{", "y", "}", "+", "2">>, <<"{", "z", "}", "+", "2">>,
    <<"2", "+", "{", "l", "o", "w", "}">>, <<"{", "l", "o", "w", "}", "+", "2">>, <<"{", " ", "x", "}", "+", "1">>, <<"{", "}", "+", "1">>, <<"{", "x", "+", "1">>, <<"x", "}", "+", "1">>,
    <<"{", "x", "}", "}", "+", "1">>, <<"{", "{", "x", "}", "+", "1">>, <<"1", "d", "{", "x", "}">>, <<"{", "s", "t", "r", "}", "d", "2">>, <<"[", "{", "x", "}", ",", "{", "S", "T", "R", "}", "]", "k", "h", "1">>, <<"(", "{", "X", "}", ")">> }

InitPlaceholder == InitOver(PlaceholderCorpus, PlaceholderTables, Seeds)

SpecPlaceholder == InitPlaceholder /\ [][Next]_vars

(***************************************************************************)
(* The round loop of the chain operators, step by step                     *)
(*                                                                         *)
(* chain.pc is "idle" before an application, "die" inside the inner loop   *)
(* and "done" once the operator has pushed its result or returned its      *)
(* error.  The loop reads meta only through len(meta), which is what       *)
(* chain.lenMeta holds; every roll is any number in 1..m.                  *)
(***************************************************************************)
\* The applications explored: operator, times, threshold and, for a_m and
\* c_m, faces.  Thresholds 1 qualify every roll; 10001 dice, a threshold
\* of 0 and 0 faces are outside the operands' ranges.
LoopCase(kind, times, threshold, m) ==
  [kind |-> kind, times |-> times, threshold |-> threshold, m |-> m]

LoopCases ==
  { LoopCase("a", t, h, 10) : t \in {0, 1}, h \in {1, 10} }
  \cup { LoopCase("a", 2, 1, 10), LoopCase("a", 10001, 1, 10), LoopCase("a", 1, 0, 10) }
  \cup { LoopCase("c", t, 10, 10) : t \in {0, 1} }
  \cup { LoopCase("a_m", 1, 1, 1), LoopCase("a_m", 2, 2, 2), LoopCase("a_m", 1, 3, 2),
         LoopCase("a_m", 10000, 1, 1), LoopCase("a_m", 1, 1, 0) }
  \cup { LoopCase("c_m", 1, 1, 1), LoopCase("c_m", 2, 1, 1), LoopCase("c_m", 1, 2, 2),
         LoopCase("c_m", 0, 1, 1) }

\* case "a", "a_m", "c", "c_m": the operands are checked and the loop is
\* entered, or left at once when times is 0.
ChainApply ==
  /\ chain.pc = "idle"
  /\ \E c \in LoopCases :
       LET ended(err) == [pc |-> "done", kind |-> c.kind, times |-> c.times,
                          threshold |-> c.threshold, m |-> c.m, err |-> err,
                          nextCount |-> c.times, cur |-> 0, i |-> 0, maxv |-> 0,
                          total |-> 0, lenMeta |-> 0]
       IN  chain' =
             IF c.times < 0 \/ c.times > 10000 THEN ended(ErrNodeLeftValInvalid)
             ELSE IF c.threshold <= 0 \/ c.threshold > 10000 THEN ended(ErrNodeRightValInvalid)
             ELSE IF c.m <= 0 \/ c.m > 10000 THEN ended(ErrNodeRightValInvalid)
             ELSE IF c.times > 0
               THEN [ended(ErrNone) EXCEPT !.pc = "die", !.cur = c.times, !.nextCount = 0]
             ELSE ended(ErrNone)
  /\ UNCHANGED <<rd, pre, runs, rolls, callerNil>>

\* One pass of the inner loop: a die is rolled and appended to meta.
ChainDie ==
  /\ chain.pc = "die"
  /\ chain.i < chain.cur
  /\ \E rnum \in 1..chain.m :
       LET hit == IF rnum >= chain.threshold THEN 1 ELSE 0
           counts == chain.kind \in {"a", "a_m"}
       IN  chain' = [chain EXCEPT !.i = @ + 1,
                                  !.lenMeta = @ + 1,
                                  !.nextCount = @ + hit,
                                  !.total = IF counts THEN @ + hit ELSE @,
                                  !.maxv = IF ~counts /\ rnum > @ THEN rnum ELSE @]
  /\ UNCHANGED <<rd, pre, runs, rolls, callerNil>>

\* The round that never ends the loop for want of qualifying dice.
ChainRoundEndAlways ==
  /\ chain.pc = "die"
  /\ chain.i >= chain.cur
  /\ LET after == [chain EXCEPT !.total = @ + chain.maxv]
     IN  chain' =
           IF after.lenMeta > RollCap THEN [after EXCEPT !.pc = "done"]
           ELSE [after EXCEPT !.cur = after.nextCount, !.nextCount = 0,
                              !.i = 0, !.maxv = 0]
  /\ UNCHANGED <<rd, pre, runs, rolls, callerNil>>

\* The end of a round: c and c_m add the round's maximum, the cap is checked,
\* and then the loop condition.
ChainRoundEnd ==
  /\ chain.pc = "die"
  /\ chain.i >= chain.cur
  /\ LET after == [chain EXCEPT !.total = @ + chain.maxv]
     IN  chain' =
           IF after.lenMeta > RollCap THEN [after EXCEPT !.pc = "done"]
           ELSE IF after.nextCount > 0
             THEN [after EXCEPT !.cur = after.nextCount, !.nextCount = 0,
                                !.i = 0, !.maxv = 0]
           ELSE [after EXCEPT !.pc = "done"]
  /\ UNCHANGED <<rd, pre, runs, rolls, callerNil>>

NextLoop == ChainApply \/ ChainDie \/ ChainRoundEnd

InitLoop == InitOver({ <<"1", "a", "1">> }, {NilTable}, { [i \in 1..SeedLen |-> 0] })

\* Evaluation is synchronous and single-threaded: a loop that can take a step
\* takes it.
SpecLoop == InitLoop /\ [][NextLoop]_vars /\ WF_vars(NextLoop)

(***************************************************************************)
(* Properties                                                              *)
(***************************************************************************)
\* The events of the most recent Roll.
lastRoll == SubSeq(rd.log, Len(pre.log) + 1, Len(rd.log))

\* The random draws and the temp writes among events, in order.
isEffect(ev) == ev.e \in {"draw", "assign"}

effects(log) == SelectSeq(log, isEffect)

\* evalTokens on the tokens of a text.
evalText(r, text) == evalTokens(r, tokenize(text).toks)

\* The RD r after Roll shows the outcome o: its error, its value when there is
\* no error, its temp store and table, and its draws and writes.
sameOutcome(o, r) ==
  /\ r.res.Error = o.err
  /\ (o.err = ErrNone => r.res.Value = o.val.V)
  /\ r.temp = o.r.temp
  /\ r.ValueTable = o.r.ValueTable
  /\ effects(r.log) = effects(o.r.log)

\* Evaluating cond, then only the branch it selects.
onlySelected(r, c, a, b) ==
  LET chosen(oc) ==
        IF oc.err # ErrNone THEN oc
        ELSE evalText(oc.r, IF oc.val.V # 0 THEN a ELSE b)
  IN  chosen(evalText(r, c))

\* C1, as stated: a ternary cond ? A : B, at top level or inside parentheses,
\* evaluates cond and then exactly the branch cond selects; the Roll ends with
\* that branch's value or error, and with the draws and temp writes of cond
\* and of that branch only, whatever the other branch contains.
TernaryEvaluatesOnlySelectedBranch ==
  \A c \in TernaryConds, a \in TernaryBranches, b \in TernaryBranches, w \in BOOLEAN :
    (rolls > 0 /\ rd.Expr = Ternary(c, a, b, w))
      => sameOutcome(onlySelected(pre, c, a, b), rd)

\* The tokens the most recent Roll evaluated.
rolledTokens == tokenize(replaceVars(pre.ValueTable, pre.origin))

\* The "(" of toks that do not directly follow "?" or ":".
plainOpens(toks) ==
  { i \in DOMAIN toks :
      toks[i] = <<"(">> /\ ~(i > 1 /\ toks[i - 1] \in { <<"?">>, <<":">> }) }

\* The positions in the events L of the top-level RD's folds of such groups.
plainFolds(L) == { i \in DOMAIN L : L[i].e = "fold" /\ L[i].d = 0 /\ L[i].c = 1 }

\* Each fold of L is of a group of toks opening at a plain "(", the folds come
\* in the order of the groups' ")", and, when complete, every plain "(" has its
\* fold and the value that replaced it.
foldsInTextualOrder(L, toks, complete) ==
  /\ \A i \in plainFolds(L) :
       /\ L[i].a \in plainOpens(toks)
       /\ toks[L[i].b] = <<")">>
       /\ \A j \in plainFolds(L) : i < j => L[i].b < L[j].b
  /\ complete =>
       \A o \in plainOpens(toks) :
         \E i \in plainFolds(L) :
           /\ L[i].a = o
           /\ \E j \in DOMAIN L :
                j > i /\ L[j].e = "folded" /\ L[j].d = 0 /\ L[j].a = o /\ L[j].b = L[i].b

\* Each top-level read in L of a temp that a top-level write in L set before
\* it yields the value of the latest such write.
readsSeeWrites(L) ==
  \A i \in DOMAIN L, j \in DOMAIN L :
    ( /\ i < j
      /\ L[i].e = "assign" /\ L[i].d = 0
      /\ L[j].e = "read" /\ L[j].d = 0 /\ L[j].a = L[i].a
      /\ \A k \in (i + 1)..(j - 1) : ~(L[k].e = "assign" /\ L[k].d = 0 /\ L[k].a = L[i].a) )
    => L[j].b = L[i].b

\* C2: every parenthesized group whose "(" does not directly follow "?" or ":"
\* is evaluated exactly once and replaced by its value, these groups are
\* evaluated in textual order, and a temp write made inside one is seen by the
\* reads evaluated after it: (1?($t1=5):($t1=6))+$t1 gives 10 with temp[1] = 5
\* and (0?($t1=5):($t1=6))+$t1 gives 12 with temp[1] = 6.
PlainGroupsFoldOnceInOrder ==
  (rolls > 0 /\ rolledTokens.ok) =>
    /\ foldsInTextualOrder(lastRoll, rolledTokens.toks, rd.res.Error = ErrNone)
    /\ readsSeeWrites(lastRoll)
    /\ rd.Expr = <<"(", "1", "?", "(", "$", "t", "1", "=", "5", ")", ":", "(", "$", "t", "1", "=", "6", ")", ")", "+", "$", "t", "1">> =>
         rd.res.Error = ErrNone /\ rd.res.Value = 10 /\ rd.temp[1] = 5
    /\ rd.Expr = <<"(", "0", "?", "(", "$", "t", "1", "=", "5", ")", ":", "(", "$", "t", "1", "=", "6", ")", ")", "+", "$", "t", "1">> =>
         rd.res.Error = ErrNone /\ rd.res.Value = 12 /\ rd.temp[1] = 6

\* A Roll of (1?($t1=5):($t1=6))+$t1 has folded the outer group, written temp 1
\* inside it and read it after it.
PlainGroupFoldedThenRead ==
  /\ rolls > 0
  /\ rd.Expr = <<"(", "1", "?", "(", "$", "t", "1", "=", "5", ")", ":", "(", "$", "t", "1", "=", "6", ")", ")", "+", "$", "t", "1">>
  /\ rd.res.Value = 10
  /\ \E i \in plainFolds(lastRoll), j \in DOMAIN lastRoll, k \in DOMAIN lastRoll :
       /\ i < j /\ j < k
       /\ lastRoll[j].e = "assign" /\ lastRoll[j].d = 0 /\ lastRoll[j].b = 5
       /\ lastRoll[k].e = "read" /\ lastRoll[k].d = 0 /\ lastRoll[k].b = 5

\* Two evaluations in a row, the first one the first Roll of its RD, both
\* started with the generator at the start of the stream: runs i and i + 1.
replayed(i) ==
  /\ i \in DOMAIN runs /\ i + 1 \in DOMAIN runs
  /\ runs[i].first
  /\ runs[i].pos = 0 /\ runs[i + 1].pos = 0

\* The text holds no assignment operator, tuple elements included.
NoAssignment(text) == \A k \in DOMAIN text : text[k] # "="

\* C3, as stated: an evaluation and the one after it, a second Roll on the same
\* RD or the Roll of a new RD with the same variable-table map, both from the
\* start of the same stream, give the same Result, for every expression.
ReplayGivesSameResult ==
  \A i \in DOMAIN runs : replayed(i) => runs[i + 1].res = runs[i].res

\* C3, amended: they give the same Result whenever the second evaluation
\* starts from the temp store and variable table contents the first one
\* started from, and so whenever the expression holds no assignment.
ReplayFromSameStoresGivesSameResult ==
  \A i \in DOMAIN runs :
    replayed(i) =>
      /\ (runs[i + 1].temp = runs[i].temp /\ runs[i + 1].table = runs[i].table)
            => runs[i + 1].res = runs[i].res
      /\ NoAssignment(rd.Expr) => runs[i + 1].res = runs[i].res

\* A second Roll on the same RD replayed the stream from the same stores, with
\* draws and a tuple in the Result.
ReplayedWithDraws ==
  /\ replayed(1) /\ ~runs[2].first /\ rolls = 2
  /\ runs[2].temp = runs[1].temp /\ runs[2].table = runs[1].table
  /\ runs[2].res.Error = ErrNone
  /\ Len(runs[2].res.MetaTuple.ints) > 0
  /\ \E k \in DOMAIN lastRoll : lastRoll[k].e = "draw"

\* C4: when Roll on a newly constructed RD ends in error, Error is set while
\* Value, Min and Max are 0 and Detail and MetaTuple are empty: nothing of the
\* operators that ran before the failure shows.
FailedRollShowsOnlyError ==
  (rolls = 1 /\ rd.res.Error # ErrNone) => rd.res = [ZeroResult EXCEPT !.Error = rd.res.Error]

\* A first Roll failed after a dice operator and a tuple operator had run.
FailedAfterOperatorsRan ==
  /\ rolls = 1 /\ rd.res.Error = ErrNodeRightValInvalid
  /\ \E k \in DOMAIN lastRoll : lastRoll[k].e = "draw" /\ lastRoll[k].d = 1

\* The precedence table and associativity as the claim gives them.
ClaimedPrec(op) ==
  CASE op \in { <<"<">>, <<">">> } -> 1
    [] op \in { <<"|">>, <<"&">> } -> 2
    [] op \in { <<"+">>, <<"-">> } -> 3
    [] op \in { <<"*">>, <<"/">> } -> 4
    [] op = <<"^">> -> 5
    [] op \in TupleOps -> 6
    [] op \in { <<"d">>, <<"f">>, <<"a">>, <<"c">>, <<"a", "_", "m">>, <<"c", "_", "m">>, <<"b">>, <<"p">> } -> 7
    [] op = <<"=">> -> 9

ClaimedRightAssoc(op) == op \in { <<"^">>, <<"=">> }

\* The postfix form of PrecExpr(op1, op2) the table implies: (x op1 y) op2 z
\* when op1 binds tighter, or as tight and is left-associative, else
\* x op1 (y op2 z).
ImpliedRPN(op1, op2) ==
  LET x == LeftOf(op1, <<"2">>)
      y == IF op2 \in ChainOps THEN <<"3">> ELSE LeftOf(op2, <<"3">>)
      z == IF op2 \in ChainOps THEN << <<"3">>, <<"3">> >> ELSE << <<"3">> >>
      left == \/ ClaimedPrec(op1) > ClaimedPrec(op2)
              \/ ClaimedPrec(op1) = ClaimedPrec(op2) /\ ~ClaimedRightAssoc(op1)
  IN  IF left THEN <<x, y, op1>> \o z \o <<op2>>
              ELSE <<x, y>> \o z \o <<op2, op1>>

\* The RD r after Roll shows the value or the error of the outcome o.
sameValue(o, r) ==
  /\ r.res.Error = o.err
  /\ (o.err = ErrNone => r.res.Value = o.val.V)

\* C5, as stated: the postfix converter orders the operators of a straight-line
\* expression by the precedence table, "^" and "=" right-associative and the
\* others left-associative, so the expression evaluates to what the grouping
\* the table implies evaluates to.
PostfixFollowsPrecedenceTable ==
  \A pair \in PrecPairs :
    (rolls > 0 /\ rd.Expr = PrecExpr(pair[1], pair[2]))
      => sameValue(evalRPN(pre, ImpliedRPN(pair[1], pair[2])), rd)

\* Arithmetic on non-negative operands as the operators are defined, for the
\* value the claim gives A op B.
RECURSIVE RefBits(_, _, _)
RefBits(a, b, both) ==
  IF a = 0 /\ b = 0 THEN 0
  ELSE 2 * RefBits(a \div 2, b \div 2, both)
       + (IF both THEN (IF a % 2 = 1 /\ b % 2 = 1 THEN 1 ELSE 0)
                  ELSE (IF a % 2 = 1 \/ b % 2 = 1 THEN 1 ELSE 0))

RECURSIVE RefPow(_, _)
RefPow(a, b) == IF b = 0 THEN 1 ELSE a * RefPow(a, b - 1)

RefArith(op, a, b) ==
  CASE op = <<"<">> -> IF a < b THEN 1 ELSE 0
    [] op = <<">">> -> IF a > b THEN 1 ELSE 0
    [] op = <<"|">> -> RefBits(a, b, FALSE)
    [] op = <<"&">> -> RefBits(a, b, TRUE)
    [] op = <<"+">> -> a + b
    [] op = <<"-">> -> a - b
    [] op = <<"*">> -> a * b
    [] op = <<"/">> -> a \div b
    [] op = <<"^">> -> RefPow(a, b)

\* The value of the right operand of AssignExpr(n, op, right) in a Roll from r,
\* when $tN reads the 7 just assigned.
RightOperand(r, right) ==
  CASE right = "lit" -> 2
    [] right = "temp" -> 7
    [] OTHER -> IntnValue(r.rng, 2) + 1

\* C6: "=" binds tighter than every arithmetic operator and operands are
\* evaluated left to right: $tN = A op B stores A in temp N, evaluates to
\* A op B, and a $tN to the right of the assignment reads A; $t=7+$t gives 14
\* with temp[1] = 7.
AssignBindsTighterThanArithmetic ==
  \A n \in AssignTemps, op \in ArithOps, right \in AssignRights :
    (rolls > 0 /\ rd.Expr = AssignExpr(n, op, right)) =>
      /\ rd.res.Error = ErrNone
      /\ n \in DOMAIN rd.temp /\ rd.temp[n] = 7
      /\ rd.res.Value = RefArith(op, 7, RightOperand(pre, right))

\* $t=7+$t was rolled with T1 = 3 in the caller's table: 14 and temp[1] = 7.
AssignThenReadRolled ==
  /\ rolls > 0 /\ rd.Expr = <<"$", "t", "=", "7", "+", "$", "t">>
  /\ ~pre.ValueTable.nil /\ <<"T", "1">> \in DOMAIN pre.ValueTable.m
  /\ rd.res.Value = 14 /\ rd.temp[1] = 7

\* The positions in the events G of the writes of temp n, by the RD the
\* caller rolls (nested FALSE) or by tuple elements (nested TRUE).
writesOf(G, n, nested) ==
  { i \in DOMAIN G : G[i].e = "assign" /\ G[i].a = n /\ ((G[i].d > 0) = nested) }

\* The largest member of a non-empty set of positions.
lastOf(S) == CHOOSE i \in S : \A j \in S : j <= i

tableHolds(r, n, v) ==
  /\ ~r.ValueTable.nil
  /\ tempKey(n) \in DOMAIN r.ValueTable.m
  /\ r.ValueTable.m[tempKey(n)] = v

\* C7, as stated: assignment writes the same value to the temp store at N and
\* to the table under T<N>, so every index N in the top-level temp store has
\* ValueTable["T<N>"] = temp[N], also after nested tuple-element evaluations.
TableMirrorsTemp ==
  \A n \in DOMAIN rd.temp : tableHolds(rd, n, rd.temp[n])

\* C7, amended: temp[N] is what the RD itself last assigned to $tN, and
\* ValueTable["T<N>"] = temp[N] unless a tuple element has assigned $tN since:
\* an element writes the shared table but not the caller's temp store.
TableMirrorsTempUnlessElementAssigned ==
  \A n \in DOMAIN rd.temp :
    /\ writesOf(rd.log, n, FALSE) # {}
    /\ rd.temp[n] = rd.log[lastOf(writesOf(rd.log, n, FALSE))].b
    /\ (\A i \in writesOf(rd.log, n, TRUE) : i < lastOf(writesOf(rd.log, n, FALSE)))
         => tableHolds(rd, n, rd.temp[n])

\* A tuple element assigned temp 1, then the RD itself did, and both stores
\* hold the RD's value.
AssignedAfterElement ==
  /\ 1 \in DOMAIN rd.temp
  /\ writesOf(rd.log, 1, TRUE) # {}
  /\ \A i \in writesOf(rd.log, 1, TRUE) : i < lastOf(writesOf(rd.log, 1, FALSE))
  /\ rd.log[lastOf(writesOf(rd.log, 1, TRUE))].b # rd.temp[1]
  /\ tableHolds(rd, 1, rd.temp[1])

\* In the events L, j is a read of the temp that the tuple element's write at
\* i set, with no write of that temp in between.
readsElementWrite(L, i, j) ==
  /\ i < j
  /\ L[i].e = "assign" /\ L[i].d > 0
  /\ L[j].e = "read" /\ L[j].a = L[i].a
  /\ \A k \in (i + 1)..(j - 1) : ~(L[k].e = "assign" /\ L[k].a = L[i].a)

\* What the RD the caller rolls holds in temp n at position j of the events L
\* of a Roll: its last write before j, else what it held before the Roll.
ownValue(L, j, n) ==
  IF { k \in writesOf(L, n, FALSE) : k < j } # {}
    THEN L[lastOf({ k \in writesOf(L, n, FALSE) : k < j })].b
    ELSE pre.temp[n]

\* C8, as stated: once a tuple element has executed $tN = v, every later read
\* of $tN, by sibling elements and by the caller, yields v, whatever the
\* caller had stored in temp N beforehand.
ElementWriteSeenByAll ==
  \A i \in DOMAIN lastRoll, j \in DOMAIN lastRoll :
    readsElementWrite(lastRoll, i, j) => lastRoll[j].b = lastRoll[i].b

\* C8, amended: every later read of $tN by an RD that holds no temp N of its
\* own, or by the element itself, yields v; the caller that had assigned $tN
\* itself reads its own temp store, that is what it last assigned.
ElementWriteSeenUnlessOwnTemp ==
  \A i \in DOMAIN lastRoll, j \in DOMAIN lastRoll :
    readsElementWrite(lastRoll, i, j) =>
      /\ (lastRoll[j].c = 0 \/ lastRoll[j].d >= lastRoll[i].d) => lastRoll[j].b = lastRoll[i].b
      /\ (lastRoll[j].c = 1 /\ lastRoll[j].d = 0) =>
           lastRoll[j].b = ownValue(lastRoll, j, lastRoll[j].a)

\* An element's write was read by a sibling element and then by the caller,
\* which held no temp of its own.
ElementWriteReadBySiblingAndCaller ==
  \E i \in DOMAIN lastRoll, j \in DOMAIN lastRoll, k \in DOMAIN lastRoll :
    /\ readsElementWrite(lastRoll, i, j) /\ readsElementWrite(lastRoll, i, k)
    /\ j < k
    /\ lastRoll[j].d = lastRoll[i].d /\ lastRoll[j].c = 0
    /\ lastRoll[k].d = 0 /\ lastRoll[k].c = 0
    /\ lastRoll[i].b # 0

\* C9: the assignment operator is the sole writer: a Roll of an expression
\* with no "=", tuple elements included, whether it succeeds or fails, leaves
\* the temp store and the variable table as they were.
OnlyAssignmentWrites ==
  (rolls > 0 /\ NoAssignment(rd.Expr)) =>
    rd.temp = pre.temp /\ rd.ValueTable = pre.ValueTable

\* An expression with no "=" was rolled, tuple elements were evaluated, and
\* the caller had passed no table.
ElementsRolledWithoutTable ==
  /\ rolls > 0 /\ NoAssignment(rd.Expr) /\ pre.ValueTable.nil
  /\ \E k \in DOMAIN lastRoll : lastRoll[k].d > 0

\* C10, as stated: when an element of a tuple operand fails to evaluate, the
\* operator consuming the tuple (k, q, kh, kl, dh, dl, min, max, sp, tp, lp)
\* fails with invalid-left-operand, never with another error kind and never
\* with a value.
FailedElementIsInvalidLeft ==
  \A bad \in BadElems, op \in TupleOps, first \in BOOLEAN :
    (rolls > 0 /\ rd.Expr = BadTuple(bad, op, first))
      => rd.res.Error = ErrNodeLeftValInvalid

\* How often v occurs in the list s.
Occurrences(s, v) == Cardinality({ i \in DOMAIN s : s[i] = v })

\* The list L in descending (desc) or ascending order: the arrangement of the
\* same entries whose neighbours are in order.
Ordered(L, desc) ==
  CHOOSE s \in [DOMAIN L -> Range(L)] :
    /\ \A v \in Range(L) : Occurrences(s, v) = Occurrences(L, v)
    /\ \A i \in DOMAIN s : i > 1 => IF desc THEN s[i - 1] >= s[i] ELSE s[i - 1] <= s[i]

\* What kh, kl, dh, dl are said to return for the list L and n > 0.
Selection(L, op, n) ==
  LET s == Ordered(L, op \in { <<"k", "h">>, <<"d", "h">> })
  IN  IF op \in { <<"k", "h">>, <<"k", "l">> }
        THEN SubSeq(s, 1, IF n < Len(L) THEN n ELSE Len(L))
        ELSE IF n >= Len(L) THEN <<>> ELSE SubSeq(s, n + 1, Len(L))

\* The dice the most recent Roll threw, in roll order.
thrown == LET draws == SelectSeq(lastRoll, LAMBDA ev : ev.e = "draw")
          IN  [i \in DOMAIN draws |-> draws[i].b + 1]

\* The Result shows the value v and the integer meta list meta, and no error.
shows(v, meta) ==
  /\ rd.res.Error = ErrNone
  /\ rd.res.Value = v
  /\ rd.res.MetaTuple = [ints |-> meta, strs |-> <<>>]

\* C12, as stated: for a resolved list L and n > 0, kh returns the first
\* min(n,|L|) entries of L sorted descending, kl those of L sorted ascending,
\* dh and dl return L sorted descending/ascending without its first n
\* entries (the empty list when n >= |L|); the value is the sum of the
\* returned list and the meta is the returned list; n <= 0 gives
\* invalid-right.
selectsAsStated(L, op, n) ==
  IF n <= 0 THEN rd.res.Error = ErrNodeRightValInvalid
  ELSE shows(SumSeq(Selection(L, op, n)), Selection(L, op, n))

SelectReturnsSortedPrefixOrRest ==
  /\ \A xs \in SelectLists, op \in SelectOps, n \in SelectCounts :
       (rolls > 0 /\ rd.Expr = SelectExpr(xs, op, n)) => selectsAsStated(xs, op, n)
  /\ \A times \in DiceCounts, op \in SelectOps, n \in DiceCounts :
       (rolls > 0 /\ rd.Expr = DiceSelectExpr(times, op, n)) => selectsAsStated(thrown, op, n)

\* C12, amended: the same for a non-empty resolved list L; for n > 0 and
\* an empty resolved list, kh, kl, dh and dl give invalid-left.
selectsNonEmpty(L, op, n) ==
  IF n > 0 /\ L = <<>> THEN rd.res.Error = ErrNodeLeftValInvalid
  ELSE selectsAsStated(L, op, n)

SelectReturnsSortedPrefixOrRestOfNonEmpty ==
  /\ \A xs \in SelectLists, op \in SelectOps, n \in SelectCounts :
       (rolls > 0 /\ rd.Expr = SelectExpr(xs, op, n)) => selectsNonEmpty(xs, op, n)
  /\ \A times \in DiceCounts, op \in SelectOps, n \in DiceCounts :
       (rolls > 0 /\ rd.Expr = DiceSelectExpr(times, op, n)) => selectsNonEmpty(thrown, op, n)

\* Three dice that came up out of order were rolled with kh2, and the two
\* highest are shown, highest first.
KeptHighestOfUnsortedDice ==
  /\ rolls > 0 /\ rd.Expr = DiceSelectExpr(3, <<"k", "h">>, 2)
  /\ thrown = <<1, 2, 1>>
  /\ shows(3, <<2, 1>>)

\* The operator a Roll of the text applies last: the last token of its
\* postfix form.
lastApplied(text) ==
  LET rpn == toRPN(preProcessTokens(tokenize(text).toks, DefaultFaces))
  IN  rpn.out[Len(rpn.out)]

\* The operators whose result lists what its value sums.
SumOps == (TupleOps \cup { <<"d">>, <<"f">> })

\* C11, as stated: whenever Roll succeeds and the last operator applied is
\* d, f, k, q, kh, kl, dh, dl, min, max, sp, tp or numeric lp, the sum of the
\* integer MetaTuple equals Value, for every outcome of the random source and
\* every operand.
MetaTupleSumsToValue ==
  ( /\ rolls > 0 /\ rd.res.Error = ErrNone
    /\ lastApplied(rd.Expr) \in SumOps
    /\ rd.res.MetaTuple.strs = <<>> )
  => SumSeq(rd.res.MetaTuple.ints) = rd.res.Value

\* The element texts evaluated one after the other, each by its own RD
\* through the whole of Roll, the first drawing from the stream of r where r
\* stands and each next one where the one before left it: [vals, rng].
RECURSIVE elementsInOrder(_, _, _)
elementsInOrder(r, texts, vals) ==
  IF texts = <<>> THEN [vals |-> vals, rng |-> r.rng]
  ELSE LET el == Roll([New(Head(texts), r.ValueTable) EXCEPT !.rng = r.rng])
       IN  elementsInOrder([r EXCEPT !.rng = el.rng], Tail(texts), Append(vals, el.res.Value))

\* The RD r rolled with the text put in place of its expression.
rolledAs(r, text) == Roll([r EXCEPT !.Expr = text, !.origin = text])

\* The most recent Roll of es op n, a tuple or a scalar es, ended as a Roll of
\* L op n ends for the list L of the element values taken in order from the
\* stream: same value, same meta list, same number of draws in all.
resolvesInOrder(es, left, op, n) ==
  LET el == elementsInOrder(pre, es, <<>>)
      expected == rolledAs([pre EXCEPT !.rng = el.rng], ListExpr(TupleText(el.vals), op, n))
  IN  expected.res.Error = ErrNone =>
        /\ rd.res.Error = ErrNone
        /\ rd.res.Value = expected.res.Value
        /\ rd.res.MetaTuple = expected.res.MetaTuple
        /\ Len(thrown) = expected.rng.pos - pre.rng.pos

\* The element texts that are integer literals.
allLiterals(es) == \A i \in DOMAIN es : Atoi(es[i]).ok

\* C13, as stated: a list-consuming operator resolves its left operand as
\* follows: a bare scalar becomes a one-element list; an all-integer tuple is
\* used as is; a tuple with sub-expression elements is resolved by evaluating
\* each element through the whole pipeline, in element order, drawing from
\* the caller's random stream.  (lp takes a tuple with sub-expression
\* elements as templates, so it is left out for those.)
ListOperandResolvedInOrder ==
  \A op \in TupleOps, n \in ListParams :
    /\ (rolls > 0 /\ rd.Expr = ListExpr(ScalarLeft, op, n))
         => resolvesInOrder(<<ScalarLeft>>, ScalarLeft, op, n)
    /\ \A es \in ElementLists :
         (rolls > 0 /\ rd.Expr = ListExpr(ElementTuple(es), op, n)
            /\ (op = <<"l", "p">> => allLiterals(es)))
           => resolvesInOrder(es, ElementTuple(es), op, n)

\* C14: d takes the last element of a tuple-literal operand as its scalar:
\* from the same place in the same stream, a Roll of [x1,...,xk] d M ends as
\* a Roll of xk d M ends, with the same Result (rolls, value, error) and the
\* same draws.
TupleDiceIsLastElementDice ==
  \A xs \in DiceTuples, m \in TupleFaces :
    (rolls > 0 /\ rd.Expr = TupleDiceExpr(xs, m)) =>
      LET scalar == rolledAs(pre, DiceExpr(xs[Len(xs)], m))
      IN  /\ rd.res = scalar.res
          /\ effects(rd.log) = effects(scalar.log)

\* [2,3]d2 was rolled and threw three dice.
TupleDiceThrewLastElement ==
  /\ rolls > 0 /\ rd.Expr = TupleDiceExpr(<<2, 3>>, 2)
  /\ rd.res.Error = ErrNone
  /\ Len(thrown) = 3
  /\ rd.res.MetaTuple.ints = thrown

\* The most recent Roll ended with the error and value that a Roll of the
\* text from the same state ends with.
endsAs(text) ==
  LET scalar == rolledAs(pre, text)
  IN  rd.res.Error = scalar.res.Error /\ rd.res.Value = scalar.res.Value

\* C15, as stated: every numeric-only operator that receives a List operand,
\* a tuple literal or a dice result, uses the list's last contributing
\* element as that operand's scalar value: [x1,...,xk] op 1 and
\* 1 op [x1,...,xk] evaluate as xk op 1 and 1 op xk, 2d2 op 1 as the second
\* die op 1, and [x1,...,xk] f 3 throws xk fudge dice.
NumericOperatorsUseLastElement ==
  /\ \A xs \in ScalarTuples, op \in ArithOps, onLeft \in BOOLEAN :
       (rolls > 0 /\ rd.Expr = TupleArithExpr(xs, op, onLeft)) =>
         endsAs(IF onLeft THEN Itoa(xs[Len(xs)]) \o op \o <<"1">>
                          ELSE <<"1">> \o op \o Itoa(xs[Len(xs)]))
  /\ \A op \in ArithOps :
       (rolls > 0 /\ rd.Expr = DiceArithExpr(op)) =>
         endsAs(Itoa(thrown[Len(thrown)]) \o op \o <<"1">>)
  /\ \A xs \in ScalarTuples :
       (rolls > 0 /\ rd.Expr = TupleFudgeExpr(xs)) =>
         rd.res.Error = ErrNone /\ Len(thrown) = xs[Len(xs)]

\* The draws of the most recent Roll were all Intn(m).
drawnOver(m) == \A i \in DOMAIN lastRoll : lastRoll[i].e = "draw" => lastRoll[i].a = m

\* C16: N d M with N outside [1,10000] is invalid-left; otherwise with M
\* outside [1,10000] it is invalid-right; otherwise exactly N draws are made,
\* meta is the N rolls in roll order, each roll is in [1,M] and the value is
\* their sum; hence 2 d M k 1 lies in [1,M].
DiceThrowsAndSums ==
  /\ \A n \in DiceTimes, m \in DiceFaces :
       (rolls > 0 /\ rd.Expr = DiceExpr(n, m)) =>
         IF n < 1 \/ n > 10000
           THEN rd.res.Error = ErrNodeLeftValInvalid /\ thrown = <<>>
         ELSE IF m < 1 \/ m > 10000
           THEN rd.res.Error = ErrNodeRightValInvalid /\ thrown = <<>>
         ELSE /\ Len(thrown) = n
              /\ drawnOver(m)
              /\ \A i \in DOMAIN thrown : thrown[i] \in 1..m
              /\ shows(SumSeq(thrown), thrown)
  /\ \A m \in KeepOneFaces :
       (rolls > 0 /\ rd.Expr = KeepOneExpr(m)) =>
         rd.res.Error = ErrNone /\ rd.res.Value \in 1..m

\* 3d3 was rolled with dice that differ, and the Result lists them in roll
\* order.
ThreeDiceThrownInOrder ==
  /\ rolls > 0 /\ rd.Expr = DiceExpr(3, 3)
  /\ thrown = <<2, 1, 2>>
  /\ shows(5, <<2, 1, 2>>)

\* The numbers the most recent Roll drew, in order.
drawn == LET draws == SelectSeq(lastRoll, LAMBDA ev : ev.e = "draw")
         IN  [i \in DOMAIN draws |-> draws[i].b]

\* The smallest and the largest entry of a non-empty list.
Least(s) == CHOOSE v \in Range(s) : \A w \in Range(s) : v <= w

Greatest(s) == CHOOSE v \in Range(s) : \A w \in Range(s) : v >= w

\* The extra digits of a percentile Roll: what it drew after the first two.
extras == SubSeq(drawn, 3, Len(drawn))

BonusTakesGreatestPenaltyLeast ==
  \A op \in BonusOps, n \in 1..3 :
    (rolls > 0 /\ rd.Expr = BonusExpr(1, op, n)) =>
      LET tens == IF op = <<"b">> THEN Greatest(extras) ELSE Least(extras)
      IN  /\ rd.res.Error = ErrNone
          /\ rd.res.Value = IF tens = 0 /\ drawn[2] = 0 THEN 100 ELSE tens * 10 + drawn[2]

\* C19, as stated: for every outcome of the random source and every param in
\* [0,10000], the value of 1 b param and of 1 p param lies in [1,100], and it
\* is 100 whenever the rolled tens and units digits are both 0.
PercentileWithinOneToHundred ==
  \A op \in BonusOps, n \in 0..3 :
    (rolls > 0 /\ rd.Expr = BonusExpr(1, op, n)) =>
      /\ rd.res.Error = ErrNone
      /\ rd.res.Value \in 1..100
      /\ (drawn[1] = 0 /\ drawn[2] = 0) => rd.res.Value = 100

\* How many entries of the list s are at least h.
AtLeast(s, h) == Cardinality({ i \in DOMAIN s : s[i] >= h })

\* The list s is made of rounds: one of size dice, then one of as many dice
\* as that round has entries at least h, and so on, ending with the first
\* round that has none.
RECURSIVE inRounds(_, _, _)
inRounds(s, size, h) ==
  IF size = 0 THEN s = <<>>
  ELSE /\ Len(s) >= size
       /\ inRounds(SubSeq(s, size + 1, Len(s)), AtLeast(SubSeq(s, 1, size), h), h)

\* C20: T a H rolls T ten-sided dice in round 1, in each later round exactly
\* as many dice as the previous round had rolls >= H, and stops after the
\* first round with no roll >= H; every roll is in [1,10], meta lists all
\* rolls of all rounds in roll order and the value is the number of meta
\* entries >= H; T outside [0,10000] gives invalid-left and H outside
\* (0,10000] gives invalid-right.
ChainRollsHitsAgain ==
  \A t \in ChainTimes, h \in ChainThresholds :
    (rolls > 0 /\ rd.Expr = ChainExpr(t, h)) =>
      IF t < 0 \/ t > 10000
        THEN rd.res.Error = ErrNodeLeftValInvalid /\ thrown = <<>>
      ELSE IF h <= 0 \/ h > 10000
        THEN rd.res.Error = ErrNodeRightValInvalid /\ thrown = <<>>
      ELSE /\ drawnOver(10)
           /\ \A i \in DOMAIN thrown : thrown[i] \in 1..10
           /\ inRounds(thrown, t, h)
           /\ shows(AtLeast(thrown, h), thrown)

\* 3a2 was rolled: two of the three dice met the threshold, one of the next
\* two did, and the last die did not.
ChainRolledThreeRounds ==
  /\ rolls > 0 /\ rd.Expr = ChainExpr(3, 2)
  /\ thrown = <<2, 1, 2, 1, 2, 1>>
  /\ shows(3, thrown)


\* The rolls that r made in its last Roll from the RD before.
thrownBy(before, r) ==
  LET draws == SelectSeq(SubSeq(r.log, Len(before.log) + 1, Len(r.log)),
                         LAMBDA ev : ev.e = "draw")
  IN  [i \in DOMAIN draws |-> draws[i].b + 1]

\* The most recent Roll of left kind h m f went as the chain of kind over
\* f-sided dice goes: the left operand was evaluated as it is alone, then the
\* chain rolled only f-sided dice, at least as many as the left operand's
\* value and none when that is 0; meta lists the chain's rolls; and for
\* kind a the rolls form rounds by threshold h and the value counts the rolls
\* that are at least h.
chainOverFaces(left, kind, h, f) ==
  LET alone == rolledAs(pre, left)
      first == thrownBy(pre, alone)
      times == alone.res.Value
      own   == SubSeq(thrown, Len(first) + 1, Len(thrown))
      dice  == SelectSeq(lastRoll, LAMBDA ev : ev.e = "draw")
  IN  /\ rd.res.Error = ErrNone
      /\ Len(thrown) >= Len(first) + times
      /\ SubSeq(thrown, 1, Len(first)) = first
      /\ \A i \in DOMAIN dice : i > Len(first) => dice[i].a = f
      /\ \A i \in DOMAIN own : own[i] \in 1..f
      /\ rd.res.MetaTuple = [ints |-> own, strs |-> <<>>]
      /\ times = 0 => own = <<>> /\ rd.res.Value = 0
      /\ kind = <<"a">> => inRounds(own, times, h) /\ rd.res.Value = AtLeast(own, h)

\* The most recent Roll ended as a Roll of text from the same RD ends: same
\* error, value, meta list and rolls.
rollsAs(text) ==
  LET other == rolledAs(pre, text)
  IN  /\ rd.res = other.res
      /\ thrown = thrownBy(pre, other)

\* C21, as stated: L a H m F and L c H m F behave as L a H and L c H with
\* F-sided instead of ten-sided dice, times being the value of the left
\* operand L, a literal or the result of a preceding operator (2d2), the
\* threshold H and every roll in [1,F]; and L a H m 10 is equivalent to L a H
\* under the same random stream.
FacesChainIsChainOverFaces ==
  \A l \in FacesLefts, k \in FacesKinds, h \in FacesThresholds, f \in FacesFaces :
    (rolls > 0 /\ rd.Expr = FacesExpr(l, k, h, f)) =>
      /\ chainOverFaces(l, k, h, f)
      /\ f = 10 => rollsAs(PlainExpr(l, k, h))

\* The sum of the maxima of the rounds of s: rounds as in inRounds.
RECURSIVE roundMaxima(_, _, _)
roundMaxima(s, size, h) ==
  IF size = 0 \/ Len(s) < size THEN 0
  ELSE Greatest(SubSeq(s, 1, size))
       + roundMaxima(SubSeq(s, size + 1, Len(s)), AtLeast(SubSeq(s, 1, size), h), h)

\* The list s is made of rounds of size dice each, a round following every
\* round that has an entry at least h and only such a round.
RECURSIVE inEqualRounds(_, _, _)
inEqualRounds(s, size, h) ==
  IF size = 0 THEN s = <<>>
  ELSE /\ Len(s) >= size
       /\ IF AtLeast(SubSeq(s, 1, size), h) > 0
            THEN inEqualRounds(SubSeq(s, size + 1, Len(s)), size, h)
            ELSE Len(s) = size

\* The sum of the maxima of the rounds of s, all of size dice.
RECURSIVE equalRoundMaxima(_, _)
equalRoundMaxima(s, size) ==
  IF size = 0 \/ Len(s) < size THEN 0
  ELSE Greatest(SubSeq(s, 1, size)) + equalRoundMaxima(SubSeq(s, size + 1, Len(s)), size)

\* The numbers of dice of the c expressions of FacesCorpus.
CondensingTimes == 0..3

CondensingExpr(t, h) == PlainExpr(NumText(t), <<"c">>, h)

\* C22, as stated: T c H rolls T ten-sided dice in every round, adds the
\* round's maximum to the running total and plays another round only if at
\* least one die of the round was >= H; meta lists every roll in roll order
\* and the value is the sum of the per-round maxima.
CondensingRoundsKeepSize ==
  \A t \in CondensingTimes, h \in FacesThresholds :
    (rolls > 0 /\ rd.Expr = CondensingExpr(t, h)) =>
      /\ drawnOver(10)
      /\ inEqualRounds(thrown, t, h)
      /\ shows(equalRoundMaxima(thrown, t), thrown)

\* C22, amended: T c H rolls T ten-sided dice in its first round and in each
\* later round as many dice as the round before had rolls >= H, adds every
\* round's maximum to the running total and plays another round only if at
\* least one die of the round was >= H; meta lists every roll in roll order
\* and the value is the sum of the per-round maxima.
CondensingRoundsRollHits ==
  \A t \in CondensingTimes, h \in FacesThresholds :
    (rolls > 0 /\ rd.Expr = CondensingExpr(t, h)) =>
      /\ drawnOver(10)
      /\ inRounds(thrown, t, h)
      /\ shows(roundMaxima(thrown, t, h), thrown)

\* 3c2 was rolled in rounds of three, two and one dice.
CondensingRolledShrinkingRounds ==
  /\ rolls > 0 /\ rd.Expr = CondensingExpr(3, 2)
  /\ thrown = <<2, 1, 2, 1, 2, 1>>
  /\ shows(5, thrown)

\* C23, as stated: no application of a, c, a_m or c_m generates more than
\* 10,000 rolls in all: its meta never has more than 10,000 entries.
ChainMetaWithinCap == chain.pc # "idle" => chain.lenMeta <= RollCap

\* C27: every application of a, c, a_m or c_m terminates whatever the rolls
\* are, also when every roll qualifies and only the roll cap ends the round
\* loop; and with times = 0 no die is rolled and the value is 0.
ChainApplicationTerminates ==
  /\ (chain.pc = "die") ~> (chain.pc = "done")
  /\ [](chain.pc = "done" /\ chain.err = ErrNone /\ chain.times = 0
          => chain.lenMeta = 0 /\ chain.total = 0)

\* An application with threshold 1 has ended, through the roll cap.
ChainEndedByCap ==
  /\ chain.pc = "done" /\ chain.err = ErrNone
  /\ chain.threshold = 1 /\ chain.nextCount > 0
  /\ chain.lenMeta > RollCap

\* C24: under the same random stream d6 is rolled as 1d6, b as 1b1, p as 1p1,
\* f and df as 4f3, Nd as Nd100 and d% as 1d100, at the start and the end of
\* an expression, after and before an operator, in parentheses and in the
\* branches of a ternary; a and c are given the left operand 1, but no right
\* operand: without a threshold they fail.
ImpliedOperandsSupplied ==
  /\ \A pl \in ImpliedPlaces, pair \in ImpliedPairs :
       (rolls > 0 /\ rd.Expr = Placed(pl, pair[1])) => rollsAs(Placed(pl, pair[2]))
  /\ (rolls > 0 /\ rd.Expr \in NoThreshold) =>
       rd.res.Error = ErrNodeStackEmpty /\ thrown = <<>>

\* 2+f was rolled: four fudge dice, of which two came up -1.
ImpliedFudgeRolled ==
  /\ rolls > 0 /\ rd.Expr = Placed(2, <<"f">>)
  /\ Len(thrown) = 4
  /\ rd.res.Error = ErrNone /\ rd.res.Value = 0

\* The index of the first brace of s at or after j, or 0.
RECURSIVE NextBrace(_, _)
NextBrace(s, j) ==
  IF j > Len(s) THEN 0 ELSE IF s[j] \in {"{", "}"} THEN j ELSE NextBrace(s, j + 1)

\* The text s from index i on with every {NAME}, NAME being free of braces
\* and not empty, replaced by the decimal value that keys holds for the
\* upper-cased NAME, and left as it is when keys holds none.
RECURSIVE Substituted(_, _, _)
Substituted(keys, s, i) ==
  IF i > Len(s) THEN <<>>
  ELSE LET j == IF s[i] = "{" THEN NextBrace(s, i + 1) ELSE 0
       IN  IF j > i + 1 /\ s[j] = "}"
             THEN LET up == ToUpper(SubSeq(s, i + 1, j - 1))
                  IN  (IF up \in DOMAIN keys THEN Itoa(keys[up]) ELSE SubSeq(s, i, j))
                        \o Substituted(keys, s, j + 1)
             ELSE <<s[i]>> \o Substituted(keys, s, i + 1)

\* C25, as stated: before lexing, every {NAME} whose upper-cased name is a
\* key of the variable table is replaced by that entry's decimal value,
\* whatever letter case the expression uses; a placeholder with no matching
\* key is left verbatim and substitution raises no error: the Roll ends, in
\* error, value and meta list, as the Roll of the text so substituted ends
\* without any table.
PlaceholdersReplacedByValue ==
  (rolls > 0 /\ rd.Expr \in PlaceholderCorpus) =>
    LET text == Substituted(pre.ValueTable.m, pre.origin, 1)
    IN  /\ LET plain == rolledAs([pre EXCEPT !.ValueTable = NilTable], text)
            IN  /\ rd.res.Error = plain.res.Error
                /\ rd.res.Value = plain.res.Value
                /\ rd.res.MetaTuple = plain.res.MetaTuple
        /\ (rd.Expr = <<"{", "S", "T", "R", "}", "+", "2">> /\ pre.ValueTable = StatTable) => shows(7, <<>>)

\* The list L without its entry at position pos.
Without(L, pos) == SubSeq(L, 1, pos - 1) \o SubSeq(L, pos + 1, Len(L))

\* The most recent Roll ended as op with index i ends on the list L: the
\* entry at the 1-based position i, from the end when i is negative, for sp,
\* and L without that entry summed up for tp; invalid-right when i is 0 or
\* beyond either end of L.
positionOf(L, op, i) ==
  LET pos == IF i > 0 THEN i ELSE Len(L) + i + 1
  IN  IF i = 0 \/ pos < 1 \/ pos > Len(L) THEN rd.res.Error = ErrNodeRightValInvalid
      ELSE IF op = <<"s", "p">> THEN shows(L[pos], <<L[pos]>>)
      ELSE shows(SumSeq(Without(L, pos)), Without(L, pos))

\* C26: for an integer list L, a tuple or the dice of 3d2, L sp i gives the
\* entry at the 1-based position i (from the end when i < 0) as value and as
\* one-element meta, L tp i gives L without that entry as meta and its sum
\* as value, and i = 0 or |i| > |L| gives invalid-right; a bare scalar
\* accepts only i = 1 and i = -1 (sp gives the scalar, tp gives 0 and no
\* meta) and any other index gives invalid-left; [3,4,5]sp2 = 4 and
\* [3,4,5]tp2 = 8.
PositionSelectsOrRemoves ==
  \A op \in PositionOps, i \in PositionIndices :
    /\ \A xs \in PositionLists :
         (rolls > 0 /\ rd.Expr = PositionExpr(TupleText(xs), op, i)) =>
           /\ positionOf(xs, op, i)
           /\ (xs = <<3, 4, 5>> /\ i = 2) => rd.res.Value = (IF op = <<"s", "p">> THEN 4 ELSE 8)
    /\ (rolls > 0 /\ rd.Expr = PositionExpr(PositionDice, op, i)) =>
         /\ Len(thrown) = 3
         /\ positionOf(thrown, op, i)
    /\ (rolls > 0 /\ rd.Expr = PositionExpr(ScalarLeft, op, i)) =>
         IF i \in {1, 0 - 1}
           THEN IF op = <<"s", "p">> THEN shows(5, <<5>>) ELSE shows(0, <<>>)
           ELSE rd.res.Error = ErrNodeLeftValInvalid

\* [4,2,6,2]tp(0-2) was rolled: the 6 is gone.
PositionRemovedFromEnd ==
  /\ rolls > 0 /\ rd.Expr = PositionExpr(TupleText(<<4, 2, 6, 2>>), <<"t", "p">>, 0 - 2)
  /\ shows(8, <<4, 2, 2>>)

\* C28, as stated: kh, kl, dh and dl fail with invalid-left whenever their
\* left operand resolves to an empty list, the literal [] as well as the
\* empty result of a preceding dh, dl or tp.
SelectFromEmptyIsInvalidLeft ==
  \A left \in EmptyLefts, op \in SelectOps :
    (rolls > 0 /\ rd.Expr = EmptiedExpr(left, op)) =>
      rd.res.Error = ErrNodeLeftValInvalid

\* The indices that the RD the caller rolls assigned in the events L.
ownWrites(L) == { L[i].a : i \in { j \in DOMAIN L : L[j].e = "assign" /\ L[j].d = 0 } }

\* After a Roll that ended in error, every temp the RD assigned before the
\* failure holds the value last assigned, and so does the table under T<N>
\* unless a tuple element has assigned the same temp since.
failedRollKeepsWrites ==
  (rolls > 0 /\ rd.res.Error # ErrNone) =>
    \A n \in ownWrites(lastRoll) :
      LET last == lastOf(writesOf(lastRoll, n, FALSE))
      IN  /\ n \in DOMAIN rd.temp
          /\ rd.temp[n] = lastRoll[last].b
          /\ { k \in writesOf(lastRoll, n, TRUE) : k > last } = {}
               => tableHolds(rd, n, lastRoll[last].b)

\* A Roll that ends in error leaves the generator advanced by the draws it
\* made.
failedRollKeepsDraws ==
  (rolls' = rolls + 1 /\ rd'.res.Error # ErrNone) =>
    LET made == SelectSeq(SubSeq(rd'.log, Len(rd.log) + 1, Len(rd'.log)),
                          LAMBDA ev : ev.e = "draw")
    IN  rd'.rng = [rd.rng EXCEPT !.pos = @ + Len(made)]

GroupFoldKeepsOnlyValue ==
  rolls > 0 =>
    \A times \in DiceCounts :
      LET sum == SumSeq(thrown)
      IN  /\ rd.Expr = PlainDice(times) => Len(thrown) = times /\ shows(sum, thrown)
          /\ rd.Expr = GroupedDice(times) => Len(thrown) = times /\ shows(sum, <<>>)
          /\ \A op \in SelectOps, n \in DiceCounts :
               /\ rd.Expr = GroupSelectExpr(times, op, n) =>
                    /\ Len(thrown) = times
                    /\ IF op \in { <<"k", "h">>, <<"k", "l">> } THEN shows(sum, <<sum>>)
                       ELSE shows(0, <<>>)
               /\ (rd.Expr = DiceSelectExpr(times, op, n) /\ op \in { <<"k", "h">>, <<"k", "l">> }) =>
                    /\ rd.res.Error = ErrNone
                    /\ Len(rd.res.MetaTuple.ints) = IF n < times THEN n ELSE times

\* (3d2)kh2 was rolled with 2, 1, 2 thrown: the value is 5 and the meta list
\* the single entry 5.
GroupOfThreeDiceKeptAsOne ==
  /\ rolls > 0 /\ rd.Expr = <<"(", "3", "d", "2", ")", "k", "h", "2">>
  /\ thrown = <<2, 1, 2>>
  /\ shows(5, <<5>>)

=============================================================================
